---- MODULE Spec2Model ----
(***************************************************************************)
(* Model of the synthetic SaaS data generator                              *)
(* (projects/saas-kpi-dashboard/data_generator_v2.py).                     *)
(*                                                                         *)
(* Conventions                                                             *)
(*  - a datetime at midnight is the number of days since 1970-01-01;       *)
(*  - money is kept in hundredths of a currency unit, so that the annual   *)
(*    discounts (0.10, 0.15, 0.20, 0.25) are exact: a price p of the code  *)
(*    is the integer 100 * p here;                                         *)
(*  - a seasonal factor or a tendency f of the code is the integer 10 * f; *)
(*  - every draw of the random generators is a nondeterministic choice     *)
(*    over a small set of the values the draw can produce;                 *)
(*  - uuid.uuid4() is a fresh value of a global counter.                   *)
(***************************************************************************)
EXTENDS Integers, Sequences, FiniteSets, TLC

VARIABLES
    wide_draws,             \* whether the first customer's draws are wide
    gen_start_date,         \* self.start_date
    gen_end_date,           \* self.end_date
    pc,                     \* position in generate_dataset
    next_uuid,              \* number of uuids drawn so far
    customers,              \* generate_customers: the list `customers`
    i,                      \* generate_customers: loop variable i
    all_subscriptions_list, \* generate_all_subscriptions: list of records
    cust_idx,               \* generate_all_subscriptions: row being iterated
    init_sub,               \* _create_initial_subscription: record being built
    churn_date,             \* _calculate_churn_date: current_date
    churn_iter,             \* _calculate_churn_date: iterations done
    exp,                    \* _generate_expansion_events: running state
    addon_subscriptions,    \* generate_addon_subscriptions: list of records
    addon_pos,              \* generate_addon_subscriptions: row reached
    pay,                    \* generate_payment_events: loop state
    payment_counts,         \* payments appended so far, per subscription row
    last_payment,           \* the payment appended last
    usage_df,               \* generate_usage_events: argument subscriptions_df
    use,                    \* generate_usage_events: loop state
    usage_count,            \* usage events appended so far
    last_usage,             \* the usage event appended last
    sup_idx,                \* generate_support_interactions: row reached
    last_support,           \* the support interaction appended last
    fn_in,                  \* arguments of a direct call of a computation
    fn_out,                 \* its result
    conversation_ids,       \* MyBot.conversation_ids, of the chat relay
    genie_conversations,    \* conversations started at Genie so far
    turn                    \* the message on_message_activity handled last

vars == <<wide_draws, gen_start_date, gen_end_date, pc, next_uuid, customers, i,
          all_subscriptions_list, cust_idx, init_sub, churn_date, churn_iter,
          exp, addon_subscriptions, addon_pos, pay, payment_counts,
          last_payment, usage_df, use, usage_count, last_usage, sup_idx, last_support,
          fn_in, fn_out, conversation_ids, genie_conversations, turn>>

None == "None"

\* None in a field that holds a datetime
NoDate == -1

Min(a, b) == IF a <= b THEN a ELSE b

Max(a, b) == IF a >= b THEN a ELSE b

(***************************************************************************)
(* datetime, timedelta and relativedelta (proleptic Gregorian calendar).   *)
(***************************************************************************)
IsLeap(y) == (y % 4 = 0 /\ y % 100 # 0) \/ y % 400 = 0

DaysInMonth(y, m) ==
    IF m = 2 THEN (IF IsLeap(y) THEN 29 ELSE 28)
    ELSE IF m \in {4, 6, 9, 11} THEN 30 ELSE 31

\* datetime(y, m, d) as a day number
Date(y, m, d) ==
    LET yy  == IF m <= 2 THEN y - 1 ELSE y
        era == yy \div 400
        yoe == yy - era * 400
        mp  == IF m > 2 THEN m - 3 ELSE m + 9
        doy == (153 * mp + 2) \div 5 + d - 1
        doe == yoe * 365 + yoe \div 4 - yoe \div 100 + doy
    IN  era * 146097 + doe - 719468

\* the (year, month, day) of a day number
Civil(z) ==
    LET zz  == z + 719468
        era == zz \div 146097
        doe == zz - era * 146097
        yoe == (doe - doe \div 1460 + doe \div 36524 - doe \div 146096) \div 365
        doy == doe - (365 * yoe + yoe \div 4 - yoe \div 100)
        mp  == (5 * doy + 2) \div 153
        d   == doy - (153 * mp + 2) \div 5 + 1
        m   == IF mp < 10 THEN mp + 3 ELSE mp - 9
        y   == yoe + era * 400 + (IF m <= 2 THEN 1 ELSE 0)
    IN  [year |-> y, month |-> m, day |-> d]

MonthOf(z) == Civil(z).month

\* date.replace(month=month+1, day=1), or (year+1, 1, 1) in December
FirstOfNextMonth(z) ==
    LET c == Civil(z)
    IN  IF c.month = 12 THEN Date(c.year + 1, 1, 1)
        ELSE Date(c.year, c.month + 1, 1)

\* the last day of the month of z, as _calculate_churn_date computes it
LastDayOfMonth(z) ==
    LET c == Civil(z)
    IN  IF c.month = 12 THEN Date(c.year, 12, 31)
        ELSE Date(c.year, c.month + 1, 1) - 1

\* date + relativedelta(months=n): the day is clipped to the month's length
AddMonths(z, n) ==
    LET c  == Civil(z)
        k  == c.year * 12 + (c.month - 1) + n
        y  == k \div 12
        m  == (k % 12) + 1
    IN  Date(y, m, Min(c.day, DaysInMonth(y, m)))

\* date + relativedelta(years=1)
AddYear(z) == AddMonths(z, 12)

(***************************************************************************)
(* The plan and add-on catalogues and the seasonal tables of __init__.     *)
(***************************************************************************)
PlanNames == <<"Starter", "Professional", "Business", "Enterprise">>

plans ==
    [Starter      |-> [base_price_monthly |-> 29,  per_seat_price |-> 0,
                       max_seats |-> 5,    annual_discount |-> 10,
                       base_churn_rate |-> 10],
     Professional |-> [base_price_monthly |-> 49,  per_seat_price |-> 15,
                       max_seats |-> 50,   annual_discount |-> 15,
                       base_churn_rate |-> 6],
     Business     |-> [base_price_monthly |-> 99,  per_seat_price |-> 25,
                       max_seats |-> 200,  annual_discount |-> 20,
                       base_churn_rate |-> 4],
     Enterprise   |-> [base_price_monthly |-> 299, per_seat_price |-> 35,
                       max_seats |-> 1000, annual_discount |-> 25,
                       base_churn_rate |-> 2]]

AddonNames == <<"advanced_reporting", "api_premium", "data_export",
                "priority_support", "custom_integrations", "training_package">>

\* price_monthly in hundredths, attachment_rate in hundredths
addons ==
    [advanced_reporting  |-> [price_monthly |-> 5000,  attachment_rate |-> 30, one_time |-> FALSE],
     api_premium         |-> [price_monthly |-> 10000, attachment_rate |-> 15, one_time |-> FALSE],
     data_export         |-> [price_monthly |-> 2500,  attachment_rate |-> 40, one_time |-> FALSE],
     priority_support    |-> [price_monthly |-> 7500,  attachment_rate |-> 20, one_time |-> FALSE],
     custom_integrations |-> [price_monthly |-> 20000, attachment_rate |-> 10, one_time |-> FALSE],
     training_package    |-> [price_monthly |-> 50000, attachment_rate |-> 5,  one_time |-> TRUE]]

\* seasonal factors times 10, months 1..12
seasonal_patterns ==
    [acquisition |-> <<14, 16, 12, 10, 9, 7, 6, 8, 15, 16, 13, 8>>,
     churn       |-> <<13, 11, 10, 9, 9, 10, 11, 10, 8, 7, 8, 12>>,
     expansion   |-> <<8, 9, 12, 13, 11, 10, 9, 10, 14, 15, 12, 9>>,
     upgrades    |-> <<11, 12, 13, 14, 10, 9, 8, 9, 12, 13, 11, 10>>]

\* seats_tendency, upgrade_tendency and budget, each times 10
size_factors ==
    [Startup    |-> [name |-> "Startup (1-10)",     seats_tendency |-> 12, upgrade_tendency |-> 8,  budget |-> 7],
     Small      |-> [name |-> "Small (11-50)",      seats_tendency |-> 15, upgrade_tendency |-> 10, budget |-> 10],
     Medium     |-> [name |-> "Medium (51-200)",    seats_tendency |-> 20, upgrade_tendency |-> 13, budget |-> 15],
     Large      |-> [name |-> "Large (201-1000)",   seats_tendency |-> 30, upgrade_tendency |-> 15, budget |-> 20],
     Enterprise |-> [name |-> "Enterprise (1000+)", seats_tendency |-> 50, upgrade_tendency |-> 12, budget |-> 30]]

(***************************************************************************)
(* The pricing formula.                                                    *)
(***************************************************************************)
\* calculate_monthly_recurring_revenue without the max(0, ...) clamp
MutMrrNoClamp(plan_name, seats, billing_frequency) ==
    LET plan == plans[plan_name]
        additional_seats == Min(seats - 1, plan.max_seats - 1)
        base_cost_monthly == plan.base_price_monthly
                             + additional_seats * plan.per_seat_price
    IN  IF billing_frequency = "annual"
        THEN base_cost_monthly * (100 - plan.annual_discount)
        ELSE base_cost_monthly * 100

\* calculate_monthly_recurring_revenue discounting the annual price twice
MutMrrDoubleDiscount(plan_name, seats, billing_frequency) ==
    LET plan == plans[plan_name]
        additional_seats == Max(0, Min(seats - 1, plan.max_seats - 1))
        base_cost_monthly == plan.base_price_monthly
                             + additional_seats * plan.per_seat_price
    IN  IF billing_frequency = "annual"
        THEN (base_cost_monthly * (100 - plan.annual_discount)
              * (100 - plan.annual_discount)) \div 100
        ELSE base_cost_monthly * 100

\* the effective monthly price, in hundredths
calculate_monthly_recurring_revenue(plan_name, seats, billing_frequency) ==
    LET plan == plans[plan_name]
        additional_seats == Max(0, Min(seats - 1, plan.max_seats - 1))
        base_cost_monthly == plan.base_price_monthly
                             + additional_seats * plan.per_seat_price
    IN  IF billing_frequency = "annual"
        THEN base_cost_monthly * (100 - plan.annual_discount)
        ELSE base_cost_monthly * 100

(***************************************************************************)
(* Bounds of the model and the values the random draws range over.         *)
(***************************************************************************)
\* generate_customers(num_customers): candidates per run
NumCustomers == 2

\* add-on records attached per run
MaxAddons == 2

\* usage events appended per run
MaxUsageEvents == 1

\* The draws of the first candidate and of the first customer row range over
\* the wide sets when wide_draws holds; every other draw is narrow.
Rich(index) == wide_draws /\ index = 0

\* (year, month, day) drawn for the acquisition date
AcqDraws(rich) ==
    IF rich THEN {<<2024, 8, 31>>, <<2024, 12, 20>>} ELSE {<<2024, 8, 31>>}

\* random.choice(list(size_factors.keys()))
SizeDraws(rich) ==
    IF rich THEN {"Startup", "Medium", "Enterprise"} ELSE {"Small"}

\* (has_trial, trial_duration, trial_start_offset)
TrialDraws(rich) ==
    IF rich THEN {<<FALSE, 0, 0>>, <<TRUE, 7, 7>>, <<TRUE, 30, 1>>}
    ELSE {<<FALSE, 0, 0>>}

\* int(np.random.exponential(2) * seats_tendency)
SeatDraws(rich) == IF rich THEN {0, 48} ELSE {2}

\* int(np.random.exponential(7))
StartDelayDraws(rich) == {0}

\* np.random.choice(['monthly', 'annual'], p=...)
BillingDraws(rich) == IF rich THEN {"monthly", "annual"} ELSE {"monthly"}

\* the months in which the churn test may succeed
ChurnMonthDraws(rich) == IF rich THEN 1..12 ELSE {11}

\* the list _generate_churn_reason chooses from
reasons ==
    {"Price sensitivity", "Lack of features", "Poor support",
     "Competitor switch", "Budget cuts", "No longer needed",
     "Technical issues", "Merger/acquisition", "Poor onboarding",
     "Low usage", "Feature gaps", "Better alternative found"}

\* random.choice(reasons)
ReasonDraws(rich) ==
    IF rich THEN {"Price sensitivity"} ELSE {"Low usage"}

\* random.randint(60, 180)
ExpansionDelayDraws(rich) == IF rich THEN {60, 180} ELSE {120}

\* random.randint(1, 5)
AdditionalSeatDraws(rich) == IF rich THEN {1, 5} ELSE {1}

\* random.randint(30, 180)
AddonDelayDraws(rich) == IF rich THEN {30, 180} ELSE {30}

\* the add-ons whose attachment test may succeed
AddonDraws == {"data_export", "training_package"}

\* whether `random.random() < p` can hold / can fail, p = num / den >= 0
CanBeLess(num, den) == num > 0

\* a test `random.random() < p` that can fail whatever p is
MutCanBeNotLessAlways(num, den) == TRUE

CanBeNotLess(num, den) == num < den

(***************************************************************************)
(* Records.                                                                *)
(***************************************************************************)
NoSub == [subscription_type |-> None]

NoExp == [current_date |-> 0]

NoPay == [row |-> 0]

NoUse == [row |-> 0]

NoEvent == [id |-> 0]

\* all_subscriptions_final = concat(all_subscriptions, addon_subscriptions)
all_subscriptions_final == all_subscriptions_list \o addon_subscriptions

IsCore(s) ==
    s.subscription_type \in {"initial", "seat_expansion", "plan_upgrade"}

PlanIndex(p) == CHOOSE k \in 1..Len(PlanNames) : PlanNames[k] = p

\* the state when generate_dataset has constructed DataGenerator()
\* the users that write to the bot
Users == {"u1", "u2"}

\* no conversation id: the None of ask_genie and of conversation_ids.get
NoConversation == 0

NoTurn == [user |-> "nobody"]

\* the chat relay after MyBot.__init__, before any message
RelayIdle ==
    /\ conversation_ids = [u \in Users |-> NoConversation]
    /\ genie_conversations = 0
    /\ turn = NoTurn

PipelineInit(wide) ==
    /\ RelayIdle
    /\ wide_draws = wide
    /\ gen_start_date = Date(2022, 1, 1)
    /\ gen_end_date = Date(2024, 12, 31)
    /\ pc = "customers"
    /\ next_uuid = 0
    /\ customers = <<>>
    /\ i = 0
    /\ all_subscriptions_list = <<>>
    /\ cust_idx = 0
    /\ init_sub = NoSub
    /\ churn_date = 0
    /\ churn_iter = 0
    /\ exp = NoExp
    /\ addon_subscriptions = <<>>
    /\ addon_pos = 0
    /\ pay = NoPay
    /\ payment_counts = <<>>
    /\ last_payment = NoEvent
    /\ usage_df = <<>>
    /\ use = NoUse
    /\ usage_count = 0
    /\ last_usage = NoEvent
    /\ sup_idx = 0
    /\ last_support = NoEvent

Init ==
    /\ PipelineInit(FALSE)
    /\ fn_in = None
    /\ fn_out = <<>>

custVars == <<customers, i>>

subVars == <<all_subscriptions_list, cust_idx, init_sub, churn_date,
             churn_iter, exp>>

addonVars == <<addon_subscriptions, addon_pos>>

payVars == <<pay, payment_counts, last_payment>>

useVars == <<usage_df, use, usage_count, last_usage>>

supVars == <<sup_idx, last_support>>

genVars == <<wide_draws, gen_start_date, gen_end_date>>

fnVars == <<fn_in, fn_out>>

relayVars == <<conversation_ids, genie_conversations, turn>>

(***************************************************************************)
(* generate_customers: one iteration of `for i in range(num_customers)`.   *)
(***************************************************************************)
\* NewCustomer counting the trial duration from the acquisition date
MutNewCustomerTrialFromAcquisition(acq, size, trial, id) ==
    LET f == size_factors[size]
    IN  [customer_id |-> id,
         company_size |-> f.name,
         acquisition_date |-> acq,
         seats_tendency |-> f.seats_tendency,
         upgrade_tendency |-> f.upgrade_tendency,
         budget_factor |-> f.budget,
         has_trial |-> trial[1],
         trial_start_date |-> IF trial[1] THEN acq - trial[3] ELSE NoDate,
         trial_end_date |-> IF trial[1] THEN acq + trial[2] ELSE NoDate]

NewCustomer(acq, size, trial, id) ==
    LET f == size_factors[size]
        trial_start == IF trial[1] THEN acq - trial[3] ELSE NoDate
        trial_end == IF trial[1] THEN acq - trial[3] + trial[2] ELSE NoDate
    IN  [customer_id |-> id,
         company_size |-> f.name,
         acquisition_date |-> acq,
         seats_tendency |-> f.seats_tendency,
         upgrade_tendency |-> f.upgrade_tendency,
         budget_factor |-> f.budget,
         has_trial |-> trial[1],
         trial_start_date |-> trial_start,
         trial_end_date |-> trial_end]

\* GenerateCustomer without the test of the date against the window
MutGenerateCustomerNoWindowTest ==
    /\ pc = "customers"
    /\ i < NumCustomers
    /\ i' = i + 1
    /\ \E ymd \in AcqDraws(Rich(i)), accepted \in BOOLEAN :
         LET acq == Date(ymd[1], ymd[2], ymd[3])
             seasonal_factor == seasonal_patterns.acquisition[ymd[2]]
         IN  IF ~accepted
             THEN /\ CanBeNotLess(seasonal_factor, 20)
                  /\ UNCHANGED <<customers, next_uuid>>
             ELSE \E size \in SizeDraws(Rich(i)),
                     trial \in TrialDraws(Rich(i)) :
                    /\ customers' = Append(customers,
                                       NewCustomer(acq, size, trial,
                                                   next_uuid + 1))
                    /\ next_uuid' = next_uuid + 1
    /\ UNCHANGED <<pc, genVars, relayVars, subVars, addonVars, payVars, useVars,
                   supVars, fnVars>>

GenerateCustomer ==
    /\ pc = "customers"
    /\ i < NumCustomers
    /\ i' = i + 1
    /\ \E ymd \in AcqDraws(Rich(i)), accepted \in BOOLEAN :
         LET acq == Date(ymd[1], ymd[2], ymd[3])
             seasonal_factor == seasonal_patterns.acquisition[ymd[2]]
         IN  IF \/ ~(gen_start_date <= acq /\ acq <= gen_end_date)
                \/ ~accepted
             THEN \* continue
                  /\ accepted \/ CanBeNotLess(seasonal_factor, 20)
                  /\ UNCHANGED <<customers, next_uuid>>
             ELSE \E size \in SizeDraws(Rich(i)),
                     trial \in TrialDraws(Rich(i)) :
                    /\ customers' = Append(customers,
                                       NewCustomer(acq, size, trial,
                                                   next_uuid + 1))
                    /\ next_uuid' = next_uuid + 1
    /\ UNCHANGED <<pc, genVars, relayVars, subVars, addonVars, payVars, useVars,
                   supVars, fnVars>>

CustomersDone ==
    /\ pc = "customers"
    /\ i = NumCustomers
    /\ pc' = "subs"
    /\ UNCHANGED <<next_uuid, genVars, relayVars, custVars, subVars, addonVars, payVars,
                   useVars, supVars, fnVars>>

(***************************************************************************)
(* generate_all_subscriptions: _create_initial_subscription,               *)
(* _calculate_churn_date and _generate_expansion_events for each row.      *)
(***************************************************************************)
\* np.random.choice of the initial plan, by company size
PlanDraws(company_size) ==
    LET both == IF company_size \in {"Startup (1-10)", "Small (11-50)"}
                THEN <<"Starter", "Professional">>
                ELSE IF company_size = "Medium (51-200)"
                THEN <<"Professional", "Business">>
                ELSE <<"Business", "Enterprise">>
    IN  {both[1], both[2]}

\* start_date of _create_initial_subscription
InitialStartDate(customer, start_delay) ==
    LET start_date == customer.acquisition_date + Max(0, start_delay)
    IN  IF /\ customer.has_trial
           /\ customer.trial_end_date # NoDate
           /\ start_date < customer.trial_end_date
        THEN customer.trial_end_date + 1
        ELSE start_date

\* seats of _create_initial_subscription without the cap at max_seats
MutInitialSeatsNoCap(plan, drawn) == Max(1, drawn)

\* seats of _create_initial_subscription
InitialSeats(plan, drawn) == Min(Max(1, drawn), plans[plan].max_seats)

CreateInitialSubscription ==
    /\ pc = "subs"
    /\ cust_idx < Len(customers)
    /\ LET customer == customers[cust_idx + 1]
           rich == Rich(cust_idx)
       IN  \E plan \in PlanDraws(customer.company_size),
              drawn \in SeatDraws(rich),
              billing_frequency \in BillingDraws(rich),
              start_delay \in StartDelayDraws(rich) :
             LET seats == InitialSeats(plan, drawn)
                 start_date == InitialStartDate(customer, start_delay)
             IN  IF start_date > gen_end_date
                 THEN \* return None: no record for this customer
                      /\ cust_idx' = cust_idx + 1
                      /\ UNCHANGED <<pc, init_sub, churn_date, churn_iter>>
                 ELSE /\ init_sub' =
                            [subscription_id |-> 0,
                             customer_id |-> customer.customer_id,
                             plan_name |-> plan,
                             billing_frequency |-> billing_frequency,
                             monthly_price |->
                                 calculate_monthly_recurring_revenue(
                                     plan, seats, billing_frequency),
                             seats |-> seats,
                             start_date |-> start_date,
                             end_date |-> NoDate,
                             subscription_type |-> "initial",
                             churn_reason |-> None]
                      /\ churn_date' = start_date
                      /\ churn_iter' = 0
                      /\ pc' = "churn"
                      /\ UNCHANGED cust_idx
    /\ UNCHANGED <<next_uuid, genVars, relayVars, custVars, all_subscriptions_list, exp,
                   addonVars, payVars, useVars, supVars, fnVars>>

\* the churn date without the cap at self.end_date
MutChurnEndDateNoCap(current_date) == LastDayOfMonth(current_date)

\* min(churn_date, self.end_date) of _calculate_churn_date
ChurnEndDate(current_date) == Min(LastDayOfMonth(current_date), gen_end_date)

\* _calculate_churn_date returns (end_date, churn_reason): the initial record is
\* completed, appended, and _generate_expansion_events starts on it
ReturnChurn(end_date, churn_reason) ==
    LET sub == [init_sub EXCEPT !.subscription_id = next_uuid + 1,
                                !.end_date = end_date,
                                !.churn_reason = churn_reason]
    IN  /\ next_uuid' = next_uuid + 1
        /\ all_subscriptions_list' = Append(all_subscriptions_list, sub)
        /\ init_sub' = sub
        /\ exp' = [current_date |-> sub.start_date,
                   current_plan |-> sub.plan_name,
                   current_seats |-> sub.seats,
                   current_monthly_price |-> sub.monthly_price]
        /\ churn_date' = 0
        /\ churn_iter' = 0
        /\ pc' = "expand"

\* one iteration of `for _ in range(12 * 10)`, or the return after the loop
ChurnStep ==
    /\ pc = "churn"
    /\ LET rich == Rich(cust_idx)
           monthly_churn_rate ==
               plans[init_sub.plan_name].base_churn_rate
               * seasonal_patterns.churn[MonthOf(churn_date)]
       IN  IF churn_iter >= 12 * 10 \/ churn_date > gen_end_date
           THEN ReturnChurn(gen_end_date, None)
           ELSE \/ /\ MonthOf(churn_date) \in ChurnMonthDraws(rich)
                   /\ CanBeLess(monthly_churn_rate, 1000)
                   /\ \E reason \in ReasonDraws(rich) :
                        ReturnChurn(ChurnEndDate(churn_date), reason)
                \/ /\ CanBeNotLess(monthly_churn_rate, 1000)
                   /\ churn_date' = FirstOfNextMonth(churn_date)
                   /\ churn_iter' = churn_iter + 1
                   /\ UNCHANGED <<pc, next_uuid, all_subscriptions_list,
                                  init_sub, exp>>
    /\ UNCHANGED <<genVars, relayVars, custVars, cust_idx, addonVars, payVars, useVars,
                   supVars, fnVars>>

\* ExpansionEvent starting the event at the initial record's start date
MutExpansionEventAtInitialStart(kind, plan, seats, price, start_date, id) ==
    [subscription_id |-> id,
     customer_id |-> customers[cust_idx + 1].customer_id,
     plan_name |-> plan,
     billing_frequency |-> init_sub.billing_frequency,
     monthly_price |-> price,
     seats |-> seats,
     start_date |-> init_sub.start_date,
     end_date |-> init_sub.end_date,
     subscription_type |-> kind,
     churn_reason |-> init_sub.churn_reason]

\* ExpansionEvent ending the event at the horizon and dropping the reason
MutExpansionEventOwnEnd(kind, plan, seats, price, start_date, id) ==
    [subscription_id |-> id,
     customer_id |-> customers[cust_idx + 1].customer_id,
     plan_name |-> plan,
     billing_frequency |-> init_sub.billing_frequency,
     monthly_price |-> price,
     seats |-> seats,
     start_date |-> start_date,
     end_date |-> gen_end_date,
     subscription_type |-> kind,
     churn_reason |-> None]

\* the record of a seat_expansion or plan_upgrade event
ExpansionEvent(kind, plan, seats, price, start_date, id) ==
    [subscription_id |-> id,
     customer_id |-> customers[cust_idx + 1].customer_id,
     plan_name |-> plan,
     billing_frequency |-> init_sub.billing_frequency,
     monthly_price |-> price,
     seats |-> seats,
     start_date |-> start_date,
     end_date |-> init_sub.end_date,
     subscription_type |-> kind,
     churn_reason |-> init_sub.churn_reason]

\* an event is appended and the running plan, seats and price are updated
EmitExpansion(kind, plan, seats, price, current_date) ==
    /\ next_uuid' = next_uuid + 1
    /\ all_subscriptions_list' =
           Append(all_subscriptions_list,
                  ExpansionEvent(kind, plan, seats, price, current_date,
                                 next_uuid + 1))
    /\ exp' = [current_date |-> current_date,
               current_plan |-> plan,
               current_seats |-> seats,
               current_monthly_price |-> price]

\* nothing is appended; only the clock advances
NoExpansion(current_date) ==
    /\ exp' = [exp EXCEPT !.current_date = current_date]
    /\ UNCHANGED <<next_uuid, all_subscriptions_list>>

\* SeatExpansion without the test that the price increased
MutSeatExpansionNoPriceTest(current_date, additional_seats) ==
    LET new_seats == Min(exp.current_seats + additional_seats,
                         plans[exp.current_plan].max_seats)
        new_monthly_price ==
            calculate_monthly_recurring_revenue(
                exp.current_plan, new_seats, init_sub.billing_frequency)
    IN  IF new_seats > exp.current_seats
        THEN EmitExpansion("seat_expansion", exp.current_plan, new_seats,
                           new_monthly_price, current_date)
        ELSE NoExpansion(current_date)

\* the seat-expansion branch, taken when its test succeeds
SeatExpansion(current_date, additional_seats) ==
    LET new_seats == Min(exp.current_seats + additional_seats,
                         plans[exp.current_plan].max_seats)
        new_monthly_price ==
            calculate_monthly_recurring_revenue(
                exp.current_plan, new_seats, init_sub.billing_frequency)
    IN  IF /\ new_seats > exp.current_seats
           /\ new_monthly_price > exp.current_monthly_price
        THEN EmitExpansion("seat_expansion", exp.current_plan, new_seats,
                           new_monthly_price, current_date)
        ELSE NoExpansion(current_date)

\* PlanUpgrade moving two plans up where there are two
MutPlanUpgradeSkipsPlan(current_date) ==
    LET current_plan_index == PlanIndex(exp.current_plan)
    IN  IF current_plan_index < Len(PlanNames)
        THEN LET new_plan == PlanNames[Min(current_plan_index + 2,
                                           Len(PlanNames))]
                 new_seats == Min(exp.current_seats, plans[new_plan].max_seats)
                 new_monthly_price ==
                     calculate_monthly_recurring_revenue(
                         new_plan, new_seats, init_sub.billing_frequency)
             IN  IF new_monthly_price > exp.current_monthly_price
                 THEN EmitExpansion("plan_upgrade", new_plan, new_seats,
                                    new_monthly_price, current_date)
                 ELSE NoExpansion(current_date)
        ELSE NoExpansion(current_date)

\* the plan-upgrade branch, taken when its test succeeds
PlanUpgrade(current_date) ==
    LET current_plan_index == PlanIndex(exp.current_plan)
    IN  IF current_plan_index < Len(PlanNames)
        THEN LET new_plan == PlanNames[current_plan_index + 1]
                 new_seats == Min(exp.current_seats, plans[new_plan].max_seats)
                 new_monthly_price ==
                     calculate_monthly_recurring_revenue(
                         new_plan, new_seats, init_sub.billing_frequency)
             IN  IF new_monthly_price > exp.current_monthly_price
                 THEN EmitExpansion("plan_upgrade", new_plan, new_seats,
                                    new_monthly_price, current_date)
                 ELSE NoExpansion(current_date)
        ELSE NoExpansion(current_date)

\* the loop of _generate_expansion_events ends: the next row is taken
ExpansionReturn ==
    /\ pc' = "subs"
    /\ cust_idx' = cust_idx + 1
    /\ init_sub' = NoSub
    /\ exp' = NoExp
    /\ UNCHANGED <<next_uuid, all_subscriptions_list>>

\* one iteration of `while current_date < effective_subscription_end`
ExpansionStep ==
    /\ pc = "expand"
    /\ LET customer == customers[cust_idx + 1]
           rich == Rich(cust_idx)
           effective_subscription_end ==
               IF init_sub.end_date # NoDate THEN init_sub.end_date
               ELSE gen_end_date
       IN  IF ~(exp.current_date < effective_subscription_end)
           THEN ExpansionReturn
           ELSE \E delay \in ExpansionDelayDraws(rich) :
                  LET current_date == exp.current_date + delay
                      month == MonthOf(current_date)
                      seat_p == 3 * seasonal_patterns.expansion[month]
                                * customer.seats_tendency
                      upgrade_p == 15 * seasonal_patterns.upgrades[month]
                                   * customer.upgrade_tendency
                  IN  IF current_date >= effective_subscription_end
                      THEN ExpansionReturn
                      ELSE /\ UNCHANGED <<pc, cust_idx, init_sub>>
                           /\ \/ /\ CanBeLess(seat_p, 1000)
                                 /\ \E additional_seats \in AdditionalSeatDraws(rich) :
                                      SeatExpansion(current_date,
                                                    additional_seats)
                              \/ /\ CanBeNotLess(seat_p, 1000)
                                 /\ CanBeLess(upgrade_p, 10000)
                                 /\ PlanUpgrade(current_date)
                              \/ /\ CanBeNotLess(seat_p, 1000)
                                 /\ CanBeNotLess(upgrade_p, 10000)
                                 /\ NoExpansion(current_date)
    /\ UNCHANGED <<genVars, relayVars, custVars, churn_date, churn_iter, addonVars,
                   payVars, useVars, supVars, fnVars>>

SubscriptionsDone ==
    /\ pc = "subs"
    /\ cust_idx = Len(customers)
    /\ pc' = "addons"
    /\ addon_pos' = 1
    /\ UNCHANGED <<next_uuid, genVars, relayVars, custVars, subVars, addon_subscriptions,
                   payVars, useVars, supVars, fnVars>>

(***************************************************************************)
(* generate_addon_subscriptions: one initial row per step.                 *)
(***************************************************************************)
RECURSIVE NextInitialRow(_)
\* the first row at or after r of kind initial (Len + 1 when there is none)
NextInitialRow(r) ==
    IF r > Len(all_subscriptions_list) THEN r
    ELSE IF all_subscriptions_list[r].subscription_type = "initial" THEN r
    ELSE NextInitialRow(r + 1)

\* plan_addon_multiplier, times 10
plan_addon_multiplier(plan_name) ==
    CASE plan_name = "Starter" -> 5
      [] plan_name = "Professional" -> 10
      [] plan_name = "Business" -> 15
      [] plan_name = "Enterprise" -> 20
      [] OTHER -> 10

\* addon_end of generate_addon_subscriptions
\* AddonEnd with every add-on ended at its parent's end date
MutAddonEndAtParentEnd(addon_name, addon_start, subscription) == IF subscription.end_date # NoDate THEN subscription.end_date ELSE gen_end_date

AddonEnd(addon_name, addon_start, subscription) ==
    IF addons[addon_name].one_time THEN addon_start + 1
    ELSE IF subscription.end_date # NoDate
         THEN Min(addon_start + 365 * 10, subscription.end_date)
         ELSE gen_end_date

\* the add-on record
AddonSub(addon_name, addon_start, subscription, id) ==
    [subscription_id |-> id,
     customer_id |-> subscription.customer_id,
     plan_name |-> addon_name,
     billing_frequency |-> subscription.billing_frequency,
     monthly_price |-> addons[addon_name].price_monthly,
     seats |-> 1,
     start_date |-> addon_start,
     end_date |-> AddonEnd(addon_name, addon_start, subscription),
     subscription_type |-> "addon",
     churn_reason |-> None]

RECURSIVE AddonRuns(_, _, _)
\* The lists of records that `for addon_name, addon_info in self.addons.items()`
\* can append for one initial row, from the k-th add-on on, acc being the
\* records appended for the add-ons before it.
AddonRuns(row, k, acc) ==
    IF k > Len(AddonNames) THEN {acc}
    ELSE
      LET subscription == all_subscriptions_list[row]
          addon_name == AddonNames[k]
          p == addons[addon_name].attachment_rate
               * plan_addon_multiplier(subscription.plan_name)
          skipped == IF CanBeNotLess(p, 1000)
                     THEN AddonRuns(row, k + 1, acc) ELSE {}
          attached ==
              IF /\ CanBeLess(p, 1000)
                 /\ addon_name \in AddonDraws
                 /\ Len(addon_subscriptions) + Len(acc) < MaxAddons
              THEN UNION {
                     LET addon_start == subscription.start_date + days_delay
                     IN  IF /\ subscription.end_date # NoDate
                            /\ addon_start > subscription.end_date
                         THEN AddonRuns(row, k + 1, acc)
                         ELSE AddonRuns(row, k + 1,
                                  Append(acc,
                                         AddonSub(addon_name, addon_start,
                                                  subscription,
                                                  next_uuid + Len(acc) + 1)))
                     : days_delay \in AddonDelayDraws(Rich(row - 1)) }
              ELSE {}
      IN  skipped \cup attached

\* the body of `for _, subscription in initial_subscriptions.iterrows()`
AddonStep ==
    /\ pc = "addons"
    /\ LET row == NextInitialRow(addon_pos)
       IN  /\ row <= Len(all_subscriptions_list)
           /\ addon_pos' = row + 1
           /\ \E acc \in AddonRuns(row, 1, <<>>) :
                /\ addon_subscriptions' = addon_subscriptions \o acc
                /\ next_uuid' = next_uuid + Len(acc)
    /\ UNCHANGED <<pc, genVars, relayVars, custVars, subVars, payVars, useVars, supVars,
                   fnVars>>

\* the first state of the payment loop on a row
PayRow(df, row) ==
    IF row <= Len(df)
    THEN [row |-> row, current_date |-> df[row].start_date, payment_count |-> 0]
    ELSE [row |-> row, current_date |-> 0, payment_count |-> 0]

AddonsDone ==
    /\ pc = "addons"
    /\ NextInitialRow(addon_pos) > Len(all_subscriptions_list)
    /\ pc' = "payments"
    /\ addon_pos' = 0
    /\ pay' = PayRow(all_subscriptions_final, 1)
    /\ payment_counts' = [r \in 1..Len(all_subscriptions_final) |-> 0]
    /\ UNCHANGED <<next_uuid, genVars, relayVars, custVars, subVars, addon_subscriptions,
                   last_payment, useVars, supVars, fnVars>>

(***************************************************************************)
(* generate_payment_events: one payment per step.                          *)
(***************************************************************************)
\* random.choice(['Credit Card', 'ACH', 'Wire Transfer', 'PayPal'])
PaymentMethodDraws ==
    IF wide_draws THEN {"Credit Card", "Wire Transfer"} ELSE {"Credit Card"}

\* success_rate, in hundredths
success_rate(payment_method) ==
    CASE payment_method = "Credit Card" -> 94
      [] payment_method = "ACH" -> 96
      [] payment_method = "Wire Transfer" -> 99
      [] payment_method = "PayPal" -> 93

\* limit of payments per subscription
max_payments == 120

IsOneTimeAddon(subscription) ==
    /\ subscription.subscription_type = "addon"
    /\ addons[subscription.plan_name].one_time

\* payment_amount charging the amount due whatever the status
MutPaymentAmountAlwaysDue(subscription, payment_status) ==
    IF subscription.billing_frequency = "annual"
    THEN subscription.monthly_price * 12
    ELSE subscription.monthly_price

\* payment_amount of a cycle
PaymentAmount(subscription, payment_status) ==
    LET amount_due == IF subscription.billing_frequency = "annual"
                      THEN subscription.monthly_price * 12
                      ELSE subscription.monthly_price
    IN  IF payment_status = "successful" THEN amount_due ELSE 0

\* the loop condition without the limit of max_payments
MutPaymentLoopNoLimit(subscription, current_date, payment_count) ==
    LET payment_end_date == IF subscription.end_date # NoDate
                            THEN subscription.end_date ELSE gen_end_date
    IN  /\ current_date <= payment_end_date
        /\ current_date <= gen_end_date

\* the condition of the while loop of generate_payment_events
PaymentLoopCondition(subscription, current_date, payment_count) ==
    LET payment_end_date == IF subscription.end_date # NoDate
                            THEN subscription.end_date ELSE gen_end_date
    IN  /\ current_date <= payment_end_date
        /\ current_date <= gen_end_date
        /\ payment_count < max_payments

\* the next cycle 30 days, or 365 days, after the current one
MutNextCycleFixedDays(subscription, current_date) ==
    IF subscription.billing_frequency = "monthly"
    THEN current_date + 30
    ELSE current_date + 365

\* the start of the next billing cycle
NextCycle(subscription, current_date) ==
    IF subscription.billing_frequency = "monthly"
    THEN AddMonths(current_date, 1)
    ELSE AddYear(current_date)

\* a payment row whose customer_id is copied from the wrong column
MutPaymentWrongCustomer(subscription, payment_date, amount, status, method, id) ==
    [id |-> id,
     subscription_id |-> subscription.subscription_id,
     customer_id |-> subscription.subscription_id,
     payment_date |-> payment_date,
     amount |-> amount,
     status |-> status,
     payment_method |-> method,
     subscription_type |-> subscription.subscription_type]

Payment(subscription, payment_date, amount, status, method, id) ==
    [id |-> id,
     subscription_id |-> subscription.subscription_id,
     customer_id |-> subscription.customer_id,
     payment_date |-> payment_date,
     amount |-> amount,
     status |-> status,
     payment_method |-> method,
     subscription_type |-> subscription.subscription_type]

PaymentStep ==
    /\ pc = "payments"
    /\ pay.row <= Len(all_subscriptions_final)
    /\ LET subscription == all_subscriptions_final[pay.row]
       IN  IF IsOneTimeAddon(subscription)
           THEN \E method \in PaymentMethodDraws :
                  /\ last_payment' =
                         Payment(subscription, subscription.start_date,
                                 subscription.monthly_price, "successful",
                                 method, next_uuid + 1)
                  /\ next_uuid' = next_uuid + 1
                  /\ payment_counts' =
                         [payment_counts EXCEPT ![pay.row] = @ + 1]
                  /\ pay' = PayRow(all_subscriptions_final, pay.row + 1)
           ELSE IF PaymentLoopCondition(subscription, pay.current_date,
                                        pay.payment_count)
           THEN \E method \in PaymentMethodDraws,
                   status \in {"successful", "failed", "refunded"} :
                  /\ status = "successful"
                        => CanBeLess(success_rate(method), 100)
                  /\ status = "failed"
                        => CanBeLess(100 - success_rate(method) - 1, 100)
                  /\ last_payment' =
                         Payment(subscription, pay.current_date,
                                 PaymentAmount(subscription, status), status,
                                 method, next_uuid + 1)
                  /\ next_uuid' = next_uuid + 1
                  /\ payment_counts' =
                         [payment_counts EXCEPT ![pay.row] = @ + 1]
                  /\ pay' = [pay EXCEPT
                               !.current_date =
                                   NextCycle(subscription, pay.current_date),
                               !.payment_count = @ + 1]
           ELSE /\ pay' = PayRow(all_subscriptions_final, pay.row + 1)
                /\ UNCHANGED <<last_payment, next_uuid, payment_counts>>
    /\ UNCHANGED <<pc, genVars, relayVars, custVars, subVars, addonVars, useVars, supVars,
                   fnVars>>

\* the first state of the month loop on a row
UsageRow(df, row) ==
    IF row <= Len(df)
    THEN [row |-> row,
          current_month_start |->
              LET c == Civil(df[row].start_date) IN Date(c.year, c.month, 1)]
    ELSE [row |-> row, current_month_start |-> 0]

\* generate_usage_events iterating over every row it is given
MutAllRows(df) == df

\* the rows generate_usage_events iterates over
core_and_expansion_subs(df) == SelectSeq(df, IsCore)

\* the frame generate_dataset passes to generate_usage_events
UsageArgument ==
    SelectSeq(all_subscriptions_list,
              LAMBDA s : s.subscription_type
                         \in {"initial", "seat_expansion", "plan_upgrade"})

PaymentsDone ==
    /\ pc = "payments"
    /\ pay.row > Len(all_subscriptions_final)
    /\ pc' = "usage"
    /\ pay' = NoPay
    /\ usage_df' = UsageArgument
    /\ use' = UsageRow(core_and_expansion_subs(UsageArgument), 1)
    /\ usage_count' = 0
    /\ UNCHANGED <<next_uuid, genVars, relayVars, custVars, subVars, addonVars,
                   payment_counts, last_payment, last_usage, supVars, fnVars>>

(***************************************************************************)
(* generate_usage_events.  A timestamp is in minutes since 1970-01-01.     *)
(***************************************************************************)
MinutesPerDay == 1440

\* (first, hours, minutes): day_of_month is the first or the last day of the
\* month, and timedelta(hours=random.randint(0, 23),
\* minutes=random.randint(0, 59)) is added to it
UsageTimeDraws == {<<TRUE, 0, 0>>, <<FALSE, 23, 59>>}

\* the condition of the month loop
UsageLoopCondition(subscription, current_month_start) ==
    LET end_date_for_usage == IF subscription.end_date # NoDate
                              THEN subscription.end_date ELSE gen_end_date
    IN  /\ current_month_start <= end_date_for_usage
        /\ current_month_start <= gen_end_date

\* the test that lets an event be appended
\* UsageEventInPeriod without the test against the record's start date
MutUsageEventNoStartTest(subscription, event_date) == event_date <= Min(subscription.end_date, gen_end_date) * MinutesPerDay

UsageEventInPeriod(subscription, event_date) ==
    LET end_date_for_usage == IF subscription.end_date # NoDate
                              THEN subscription.end_date ELSE gen_end_date
    IN  /\ subscription.start_date * MinutesPerDay <= event_date
        /\ event_date <= end_date_for_usage * MinutesPerDay
        /\ event_date <= gen_end_date * MinutesPerDay

\* the largest value of random.randint(1, max(1, min(seats, int(seats * b))))
\* over the draws b of np.random.beta, 0 <= b < 1
MaxSeatsUsed(seats) == Max(1, Min(seats, seats - 1))

UsageEvent(subscription, event_date, seats_used, id) ==
    [id |-> id,
     customer_id |-> subscription.customer_id,
     subscription_id |-> subscription.subscription_id,
     event_date |-> event_date,
     seats_used |-> seats_used]

\* one event of one day of the month being iterated
UsageEventStep ==
    /\ pc = "usage"
    /\ use.row <= Len(core_and_expansion_subs(usage_df))
    /\ usage_count < MaxUsageEvents
    /\ LET subscription == core_and_expansion_subs(usage_df)[use.row]
           c == Civil(use.current_month_start)
       IN  /\ UsageLoopCondition(subscription, use.current_month_start)
           /\ \E t \in UsageTimeDraws,
                 seats_used \in {1, MaxSeatsUsed(subscription.seats)} :
                LET day_of_month == IF t[1] THEN 1
                                    ELSE DaysInMonth(c.year, c.month)
                    event_date == Date(c.year, c.month, day_of_month)
                                  * MinutesPerDay + t[2] * 60 + t[3]
                IN  /\ UsageEventInPeriod(subscription, event_date)
                    /\ last_usage' = UsageEvent(subscription, event_date,
                                                seats_used, next_uuid + 1)
                    /\ next_uuid' = next_uuid + 1
                    /\ usage_count' = usage_count + 1
    /\ UNCHANGED <<pc, genVars, relayVars, custVars, subVars, addonVars, payVars,
                   usage_df, use, supVars, fnVars>>

\* the month cursor moves to the next month, or the next row is taken
\* UsageAdvance without the branch for December: the cursor of a December
\* is moved to January of the same year
MutUsageAdvanceNoYearWrap ==
    /\ pc = "usage"
    /\ use.row <= Len(core_and_expansion_subs(usage_df))
    /\ LET df == core_and_expansion_subs(usage_df)
           subscription == df[use.row]
           c == Civil(use.current_month_start)
       IN  IF UsageLoopCondition(subscription, use.current_month_start)
           THEN use' = [use EXCEPT !.current_month_start =
                                       IF c.month = 12
                                       THEN Date(c.year, 1, 1)
                                       ELSE FirstOfNextMonth(@)]
           ELSE use' = UsageRow(df, use.row + 1)
    /\ UNCHANGED <<pc, next_uuid, genVars, relayVars, custVars, subVars, addonVars,
                   payVars, usage_df, usage_count, last_usage, supVars,
                   fnVars>>

UsageAdvance ==
    /\ pc = "usage"
    /\ use.row <= Len(core_and_expansion_subs(usage_df))
    /\ LET df == core_and_expansion_subs(usage_df)
           subscription == df[use.row]
       IN  IF UsageLoopCondition(subscription, use.current_month_start)
           THEN use' = [use EXCEPT !.current_month_start =
                                       FirstOfNextMonth(@)]
           ELSE use' = UsageRow(df, use.row + 1)
    /\ UNCHANGED <<pc, next_uuid, genVars, relayVars, custVars, subVars, addonVars,
                   payVars, usage_df, usage_count, last_usage, supVars,
                   fnVars>>

UsageDone ==
    /\ pc = "usage"
    /\ use.row > Len(core_and_expansion_subs(usage_df))
    /\ pc' = "support"
    /\ use' = NoUse
    /\ sup_idx' = 0
    /\ UNCHANGED <<next_uuid, genVars, relayVars, custVars, subVars, addonVars, payVars,
                   usage_df, usage_count, last_usage, last_support, fnVars>>

(***************************************************************************)
(* generate_support_interactions: one customer row per step.               *)
(***************************************************************************)
\* random.randint(0, (end - start).days)
SupportOffsetDraws ==
    IF wide_draws THEN {0, gen_end_date - gen_start_date} ELSE {0}

SupportInteraction(customer, interaction_date, id) ==
    [id |-> id,
     customer_id |-> customer.customer_id,
     interaction_date |-> interaction_date]

SupportStep ==
    /\ pc = "support"
    /\ sup_idx < Len(customers)
    /\ sup_idx' = sup_idx + 1
    /\ \/ \* np.random.poisson draws 0
          UNCHANGED <<last_support, next_uuid>>
       \/ \E offset \in SupportOffsetDraws :
            /\ last_support' = SupportInteraction(customers[sup_idx + 1],
                                                  gen_start_date + offset,
                                                  next_uuid + 1)
            /\ next_uuid' = next_uuid + 1
    /\ UNCHANGED <<pc, genVars, relayVars, custVars, subVars, addonVars, payVars,
                   useVars, fnVars>>

SupportDone ==
    /\ pc = "support"
    /\ sup_idx = Len(customers)
    /\ pc' = "done"
    /\ UNCHANGED <<next_uuid, genVars, relayVars, custVars, subVars, addonVars, payVars,
                   useVars, supVars, fnVars>>

Next ==
    \/ GenerateCustomer
    \/ CustomersDone
    \/ CreateInitialSubscription
    \/ ChurnStep
    \/ ExpansionStep
    \/ SubscriptionsDone
    \/ AddonStep
    \/ AddonsDone
    \/ PaymentStep
    \/ PaymentsDone
    \/ UsageEventStep
    \/ UsageAdvance
    \/ UsageDone
    \/ SupportStep
    \/ SupportDone

\* generate_dataset from its start to its last generation step
Spec == Init /\ [][Next]_vars

(***************************************************************************)
(* The subscription lifecycle alone: generate_customers,                   *)
(* generate_all_subscriptions and generate_addon_subscriptions, with the   *)
(* wide draws for the first customer.                                      *)
(***************************************************************************)
LifecycleInit ==
    /\ PipelineInit(TRUE)
    /\ fn_in = None
    /\ fn_out = <<>>

LifecycleNext ==
    \/ GenerateCustomer
    \/ CustomersDone
    \/ CreateInitialSubscription
    \/ ChurnStep
    \/ ExpansionStep
    \/ SubscriptionsDone
    \/ AddonStep
    \/ AddonsDone

LifecycleSpec == LifecycleInit /\ [][LifecycleNext]_vars

(***************************************************************************)
(* Direct calls of generate_payment_events and generate_usage_events on a  *)
(* table of one initial record and at most one add-on record attached to   *)
(* it, as generate_all_subscriptions and generate_addon_subscriptions      *)
(* build them.                                                             *)
(***************************************************************************)
\* an initial record of customer 1
DirectInitial(billing_frequency, start_date, end_date, churn_reason) ==
    [subscription_id |-> 2,
     customer_id |-> 1,
     plan_name |-> "Professional",
     billing_frequency |-> billing_frequency,
     monthly_price |-> calculate_monthly_recurring_revenue(
                           "Professional", 3, billing_frequency),
     seats |-> 3,
     start_date |-> start_date,
     end_date |-> end_date,
     subscription_type |-> "initial",
     churn_reason |-> churn_reason]

\* the variables no direct call reads
DirectRest ==
    /\ RelayIdle
    /\ wide_draws = TRUE
    /\ next_uuid = 3
    /\ customers = <<>>
    /\ i = 0
    /\ cust_idx = 0
    /\ init_sub = NoSub
    /\ churn_date = 0
    /\ churn_iter = 0
    /\ exp = NoExp
    /\ addon_pos = 0
    /\ last_payment = NoEvent
    /\ usage_count = 0
    /\ last_usage = NoEvent
    /\ sup_idx = 0
    /\ last_support = NoEvent
    /\ fn_in = None
    /\ fn_out = <<>>

\* the tables drawn: the record starts on one of `starts`, runs to the horizon
\* or churned at the end of the month of start + 40 days, and has no add-on
\* or one of AddonDraws attached
DirectTables(starts) ==
    \E billing_frequency \in {"monthly", "annual"},
       start_date \in starts,
       churned \in BOOLEAN,
       addon \in {None} \cup AddonDraws,
       days_delay \in AddonDelayDraws(FALSE) :
       LET subscription ==
               IF churned
               THEN DirectInitial(billing_frequency, start_date,
                                  ChurnEndDate(start_date + 40),
                                  "Price sensitivity")
               ELSE DirectInitial(billing_frequency, start_date,
                                  gen_end_date, None)
       IN  /\ all_subscriptions_list = <<subscription>>
           /\ addon_subscriptions =
                  IF addon = None THEN <<>>
                  ELSE <<AddonSub(addon, start_date + days_delay,
                                  subscription, 3)>>

\* generate_payment_events on a generator of fifteen years
PaymentInit ==
    /\ gen_start_date = Date(2010, 1, 1)
    /\ gen_end_date = Date(2024, 12, 31)
    /\ DirectTables({Date(2010, 1, 31), Date(2024, 8, 31)})
    /\ DirectRest
    /\ pc = "payments"
    /\ pay = PayRow(all_subscriptions_final, 1)
    /\ payment_counts = [r \in 1..Len(all_subscriptions_final) |-> 0]
    /\ usage_df = <<>>
    /\ use = NoUse

PaymentNext == PaymentStep \/ PaymentsDone

PaymentSpec == PaymentInit /\ [][PaymentNext]_vars

\* generate_usage_events given all_subscriptions_final, add-on rows included
UsageInit ==
    /\ gen_start_date = Date(2022, 1, 1)
    /\ gen_end_date = Date(2024, 12, 31)
    /\ DirectTables({Date(2024, 8, 31), Date(2024, 10, 15)})
    /\ DirectRest
    /\ pc = "usage"
    /\ pay = NoPay
    /\ payment_counts = <<>>
    /\ usage_df = all_subscriptions_final
    /\ use = UsageRow(core_and_expansion_subs(all_subscriptions_final), 1)

UsageNext == UsageEventStep \/ UsageAdvance \/ UsageDone

UsageSpec == UsageInit /\ [][UsageNext]_vars

(***************************************************************************)
(* Direct calls of generate_customers(NumCustomers) on generators whose    *)
(* window starts and ends inside a year.                                   *)
(***************************************************************************)
\* DataGenerator(start_date, end_date): the default window, and windows that
\* start or end inside a month of 2024
WindowDraws ==
    {<<Date(2022, 1, 1), Date(2024, 12, 31)>>,
     <<Date(2024, 9, 15), Date(2024, 12, 31)>>,
     <<Date(2022, 1, 1), Date(2024, 12, 10)>>,
     <<Date(2024, 9, 15), Date(2024, 12, 10)>>}

CustomerInit ==
    /\ RelayIdle
    /\ \E w \in WindowDraws : gen_start_date = w[1] /\ gen_end_date = w[2]
    /\ wide_draws = TRUE
    /\ pc = "customers"
    /\ next_uuid = 0
    /\ customers = <<>>
    /\ i = 0
    /\ all_subscriptions_list = <<>>
    /\ cust_idx = 0
    /\ init_sub = NoSub
    /\ churn_date = 0
    /\ churn_iter = 0
    /\ exp = NoExp
    /\ addon_subscriptions = <<>>
    /\ addon_pos = 0
    /\ pay = NoPay
    /\ payment_counts = <<>>
    /\ last_payment = NoEvent
    /\ usage_df = <<>>
    /\ use = NoUse
    /\ usage_count = 0
    /\ last_usage = NoEvent
    /\ sup_idx = 0
    /\ last_support = NoEvent
    /\ fn_in = None
    /\ fn_out = <<>>

CustomerNext == GenerateCustomer \/ CustomersDone

CustomerSpec == CustomerInit /\ [][CustomerNext]_vars

(***************************************************************************)
(* Direct calls of _calculate_churn_date(start_date, plan), from           *)
(* _create_initial_subscription, for one customer.                         *)
(***************************************************************************)
\* (window, start_date): starts inside the windows of WindowDraws, and a
\* start on a generator of fifteen years, where range(12 * 10) runs out
ChurnCallDraws ==
    {<<w, d>> : w \in WindowDraws, d \in {Date(2024, 9, 30), Date(2024, 12, 5)}}
    \cup {<<<<Date(2010, 1, 1), Date(2024, 12, 31)>>, Date(2010, 1, 31)>>}

ChurnInit ==
    /\ RelayIdle
    /\ \E call \in ChurnCallDraws, plan \in {"Starter", "Enterprise"} :
         /\ gen_start_date = call[1][1]
         /\ gen_end_date = call[1][2]
         /\ customers = <<NewCustomer(call[2], "Small", <<FALSE, 0, 0>>, 1)>>
         /\ init_sub = [subscription_id |-> 0,
                        customer_id |-> 1,
                        plan_name |-> plan,
                        billing_frequency |-> "monthly",
                        monthly_price |-> calculate_monthly_recurring_revenue(
                                              plan, 1, "monthly"),
                        seats |-> 1,
                        start_date |-> call[2],
                        end_date |-> NoDate,
                        subscription_type |-> "initial",
                        churn_reason |-> None]
         /\ churn_date = call[2]
    /\ wide_draws = TRUE
    /\ pc = "churn"
    /\ next_uuid = 1
    /\ i = 1
    /\ all_subscriptions_list = <<>>
    /\ cust_idx = 0
    /\ churn_iter = 0
    /\ exp = NoExp
    /\ addon_subscriptions = <<>>
    /\ addon_pos = 0
    /\ pay = NoPay
    /\ payment_counts = <<>>
    /\ last_payment = NoEvent
    /\ usage_df = <<>>
    /\ use = NoUse
    /\ usage_count = 0
    /\ last_usage = NoEvent
    /\ sup_idx = 0
    /\ last_support = NoEvent
    /\ fn_in = None
    /\ fn_out = <<>>

ChurnSpec == ChurnInit /\ [][ChurnStep]_vars

(***************************************************************************)
(* Direct calls of calculate_monthly_recurring_revenue.                    *)
(***************************************************************************)
\* the seat counts passed: around 1 and around each plan's max_seats
SeatInputs ==
    (-2..7) \cup (49..51) \cup (199..201) \cup (999..1001)

PricingInit ==
    /\ PipelineInit(FALSE)
    /\ fn_in \in [plan_name : {PlanNames[k] : k \in 1..Len(PlanNames)},
                  seats : SeatInputs,
                  billing_frequency : {"monthly", "annual"}]
    /\ fn_out = <<>>

\* the call returns
PricingCall ==
    /\ fn_out = <<>>
    /\ fn_out' = <<calculate_monthly_recurring_revenue(
                       fn_in.plan_name, fn_in.seats, fn_in.billing_frequency)>>
    /\ UNCHANGED <<fn_in, pc, next_uuid, genVars, relayVars, custVars, subVars,
                   addonVars, payVars, useVars, supVars>>

PricingSpec == PricingInit /\ [][PricingCall]_vars

(***************************************************************************)
(* The unit economics of generate_dataset, row by row.  A float is an      *)
(* exact fraction [num, den] in lowest terms with den > 0; the result of a *)
(* division by zero (inf or NaN) is Undefined.                             *)
(***************************************************************************)
RECURSIVE Gcd(_, _)
Gcd(a, b) == IF b = 0 THEN a ELSE Gcd(b, a % b)

Abs(a) == IF a < 0 THEN -a ELSE a

Undefined == [num |-> 0, den |-> 0]

IsDefined(x) == x.den > 0

Frac(n, d) ==
    IF d = 0 THEN Undefined
    ELSE LET g == Gcd(Abs(n), Abs(d))
             sign == IF d < 0 THEN -1 ELSE 1
         IN  [num |-> sign * (n \div g), den |-> sign * (d \div g)]

\* x / y
FracDiv(x, y) ==
    IF ~IsDefined(x) \/ ~IsDefined(y) THEN Undefined
    ELSE Frac(x.num * y.den, x.den * y.num)

\* x < y, both defined
FracLess(x, y) == x.num * y.den < y.num * x.den

\* row['LTV'] / row['CAC'] if row['CAC'] > 0 else 0
LTV_CAC_Ratio(row) ==
    IF row.CAC > 0 THEN FracDiv(Frac(row.LTV, 1), Frac(row.CAC, 1))
    ELSE Frac(0, 1)

\* actual_active_months without `.apply(lambda x: max(1, x))`
MutActiveMonthsNoFloor(row) ==
    IF row.has_subscription
    THEN Frac((row.last_active - row.first_active) * 10, 304)
    ELSE Frac(1, 1)

\* (last_active - first_active).days / 30.4, at least 1; 1 for a customer
\* that the left merge finds no subscription for
actual_active_months(row) ==
    IF row.has_subscription
    THEN LET x == Frac((row.last_active - row.first_active) * 10, 304)
         IN  IF FracLess(Frac(1, 1), x) THEN x ELSE Frac(1, 1)
    ELSE Frac(1, 1)

\* Total_Revenue / actual_active_months, inf and NaN replaced by 0
Monthly_Revenue(row) ==
    LET q == FracDiv(Frac(row.LTV, 1), actual_active_months(row))
    IN  IF IsDefined(q) THEN q ELSE Frac(0, 1)

\* row['CAC'] / row['Monthly_Revenue'] if row['Monthly_Revenue'] > 0 else 0
CAC_Payback_Months(row) ==
    IF Monthly_Revenue(row).num > 0
    THEN FracDiv(Frac(row.CAC, 1), Monthly_Revenue(row))
    ELSE Frac(0, 1)

\* the rows drawn: CAC and total revenue in hundredths (0 is what fillna(0)
\* writes for a missing CAC), and the first start and last end date of the
\* customer's records, if it has any; a customer without records has no
\* payment
MetricsRowDraws ==
    {[CAC |-> c, LTV |-> 0, has_subscription |-> FALSE,
      first_active |-> NoDate, last_active |-> NoDate] :
        c \in {0, 5000, 20000, 50000}}
    \cup
    {[CAC |-> c, LTV |-> v, has_subscription |-> TRUE,
      first_active |-> Date(2024, 8, 31),
      last_active |-> Date(2024, 8, 31) + d] :
        c \in {0, 5000, 20000, 50000}, v \in {0, 7900, 94800},
        d \in {0, 1, 30, 31, 122}}

MetricsInit ==
    /\ PipelineInit(FALSE)
    /\ fn_in \in MetricsRowDraws
    /\ fn_out = <<>>

\* the columns generate_dataset computes for the row
MetricsCall ==
    /\ fn_out = <<>>
    /\ fn_out' = <<[LTV_CAC_Ratio |-> LTV_CAC_Ratio(fn_in),
                    actual_active_months |-> actual_active_months(fn_in),
                    Monthly_Revenue |-> Monthly_Revenue(fn_in),
                    CAC_Payback_Months |-> CAC_Payback_Months(fn_in)]>>
    /\ UNCHANGED <<fn_in, pc, next_uuid, genVars, relayVars, custVars, subVars,
                   addonVars, payVars, useVars, supVars>>

MetricsSpec == MetricsInit /\ [][MetricsCall]_vars

(***************************************************************************)
(* calculate_customer_health_and_churn on a frame of two customers.  Each  *)
(* row of fn_in holds what the groupby of the other frames finds for the   *)
(* customer: its usage summary, the sentiment ratings of its support       *)
(* interactions, and its latest end date.                                  *)
(***************************************************************************)
FracAdd(x, y) ==
    IF ~IsDefined(x) \/ ~IsDefined(y) THEN Undefined
    ELSE Frac(x.num * y.den + y.num * x.den, x.den * y.den)

FracMul(x, y) ==
    IF ~IsDefined(x) \/ ~IsDefined(y) THEN Undefined
    ELSE Frac(x.num * y.num, x.den * y.den)

\* Series.max(): the largest defined value (NaN is skipped)
FracMax(S) ==
    LET D == {x \in S : IsDefined(x)}
    IN  IF D = {} THEN Undefined
        ELSE CHOOSE x \in D : \A y \in D : ~FracLess(x, y)

FracMin(S) ==
    LET D == {x \in S : IsDefined(x)}
    IN  IF D = {} THEN Undefined
        ELSE CHOOSE x \in D : \A y \in D : ~FracLess(y, x)

\* .fillna(value)
fillna(x, value) == IF IsDefined(x) THEN x ELSE value

\* 1 if pd.notna(x) and x < self.end_date else 0
Churned(c) ==
    IF c.latest_end_date # NoDate /\ c.latest_end_date < gen_end_date
    THEN 1 ELSE 0

sentiment_mapping == [Positive |-> Frac(1, 1), Neutral |-> Frac(1, 2),
                      Negative |-> Frac(0, 1)]

RECURSIVE SumSentiment(_)
SumSentiment(ratings) ==
    IF ratings = <<>> THEN Frac(0, 1)
    ELSE FracAdd(sentiment_mapping[Head(ratings)], SumSentiment(Tail(ratings)))

\* the mean of numerical_sentiment over the customer's interactions, merged
\* left and filled with 0.5
Avg_Sentiment_Score(c) ==
    fillna(FracDiv(SumSentiment(c.ratings), Frac(Len(c.ratings), 1)),
           Frac(1, 2))

\* the usage summary merged left without .fillna
MutUsageSummaryNoFill(c) ==
    IF c.has_usage
    THEN [Active_Days |-> Frac(c.Active_Days, 1),
          Total_Usage_Events |-> Frac(c.Total_Usage_Events, 1)]
    ELSE [Active_Days |-> Undefined, Total_Usage_Events |-> Undefined]

\* customer_usage_summary merged left, Active_Days and Total_Usage_Events
\* filled with 0
UsageSummary(c) ==
    LET merged == IF c.has_usage
                  THEN [Active_Days |-> Frac(c.Active_Days, 1),
                        Total_Usage_Events |-> Frac(c.Total_Usage_Events, 1)]
                  ELSE [Active_Days |-> Undefined,
                        Total_Usage_Events |-> Undefined]
    IN  [Active_Days |-> fillna(merged.Active_Days, Frac(0, 1)),
         Total_Usage_Events |-> fillna(merged.Total_Usage_Events, Frac(0, 1))]

\* column.max() if column.max() > 0 else 1
MaxOrOne(S) ==
    LET m == FracMax(S)
    IN  IF IsDefined(m) /\ m.num > 0 THEN m ELSE Frac(1, 1)

Usage_Score(df, k) ==
    LET max_active_days ==
            MaxOrOne({UsageSummary(df[j]).Active_Days : j \in 1..Len(df)})
        max_total_events ==
            MaxOrOne({UsageSummary(df[j]).Total_Usage_Events :
                        j \in 1..Len(df)})
        u == UsageSummary(df[k])
    IN  fillna(FracAdd(FracMul(Frac(1, 2),
                               FracDiv(u.Active_Days, max_active_days)),
                       FracMul(Frac(1, 2),
                               FracDiv(u.Total_Usage_Events,
                                       max_total_events))),
               Frac(0, 1))

\* the score before it is rescaled
RawHealthScore(df, k) ==
    LET max_budget ==
            MaxOrOne({Frac(df[j].budget_factor, 10) : j \in 1..Len(df)})
    IN  FracAdd(
          FracAdd(FracMul(Frac(4, 10), Usage_Score(df, k)),
                  FracMul(Frac(3, 10), Avg_Sentiment_Score(df[k]))),
          FracAdd(FracMul(Frac(2, 10), Frac(1 - Churned(df[k]), 1)),
                  FracMul(Frac(1, 10),
                          FracDiv(Frac(df[k].budget_factor, 10),
                                  max_budget))))

\* the score every score is divided by: the smallest instead of the largest
MutScaleBySmallest(df) ==
    FracMin({RawHealthScore(df, j) : j \in 1..Len(df)})

\* max_health_score
max_health_score(df) ==
    FracMax({RawHealthScore(df, j) : j \in 1..Len(df)})

Customer_Health_Score(df, k) ==
    LET m == max_health_score(df)
    IN  IF IsDefined(m) /\ m.num > 0
        THEN FracDiv(RawHealthScore(df, k), m)
        ELSE Frac(1, 2)

\* what the frames hold for one customer: no subscription (and then no
\* usage), a latest end date before the horizon, or one at the horizon
HealthRowDraws ==
    {[has_usage |-> u[1], Active_Days |-> u[2], Total_Usage_Events |-> u[3],
      ratings |-> r, latest_end_date |-> e, budget_factor |-> b] :
        u \in {<<FALSE, 0, 0>>, <<TRUE, 1, 1>>, <<TRUE, 2, 5>>},
        r \in {<<>>, <<"Positive">>, <<"Negative">>,
               <<"Neutral", "Negative">>},
        e \in {NoDate, Date(2024, 11, 30), Date(2024, 12, 31)},
        b \in {size_factors.Startup.budget, size_factors.Enterprise.budget}}

\* a customer without a subscription has no usage event
HealthRows ==
    {c \in HealthRowDraws : c.latest_end_date = NoDate => ~c.has_usage}

HealthInit ==
    /\ PipelineInit(FALSE)
    /\ fn_in \in {<<a, b>> : a \in HealthRows, b \in HealthRows}
    /\ fn_out = <<>>

\* the frame calculate_customer_health_and_churn returns
HealthCall ==
    /\ fn_out = <<>>
    /\ fn_out' =
          [k \in 1..Len(fn_in) |->
              [Churned |-> Churned(fn_in[k]),
               Avg_Sentiment_Score |-> Avg_Sentiment_Score(fn_in[k]),
               Active_Days |-> UsageSummary(fn_in[k]).Active_Days,
               Total_Usage_Events |->
                   UsageSummary(fn_in[k]).Total_Usage_Events,
               Usage_Score |-> Usage_Score(fn_in, k),
               Customer_Health_Score |-> Customer_Health_Score(fn_in, k)]]
    /\ UNCHANGED <<fn_in, pc, next_uuid, genVars, relayVars, custVars, subVars,
                   addonVars, payVars, useVars, supVars>>

HealthSpec == HealthInit /\ [][HealthCall]_vars

(***************************************************************************)
(* Two runs of generate_customers(1) in two processes that both execute    *)
(* np.random.seed(42) at import.  The draws of np.random are the values of *)
(* the seeded stream, by position; the draws of the module random, which   *)
(* no code seeds, and of uuid.uuid4() are free in each run.                *)
(***************************************************************************)
\* np.random.seed(42)
np_random_seed == 42

\* the k-th draw of np.random.normal(mean, 50) on the stream of that seed,
\* in whole dollars: a value fixed by the seed and the position
np_random_normal(seed, k, mean) == mean + ((seed * 37 + k * 11) % 101) - 50

\* random.choice(list(base_cac_channel.keys())), with the base CAC
base_cac_channel == [Referral |-> 250, Direct |-> 600]

\* cac_multiplier of size_factors, times 10
cac_multiplier ==
    [Startup |-> 8, Small |-> 10, Medium |-> 15, Large |-> 20,
     Enterprise |-> 30]

\* the values of str(uuid.uuid4())
UuidDraws == {1, 2}

\* the data sets generate_customers(1) can return
SeededRunResults(seed) ==
    {<<>>}
    \cup
    {<<[customer |-> NewCustomer(Date(ymd[1], ymd[2], ymd[3]), size, trial,
                                 id),
        acquisition_cost |->
            Max(50, np_random_normal(
                        seed, 1,
                        (base_cac_channel[channel] * cac_multiplier[size])
                        \div 10))]>> :
        ymd \in {d \in AcqDraws(TRUE) :
                   /\ gen_start_date <= Date(d[1], d[2], d[3])
                   /\ Date(d[1], d[2], d[3]) <= gen_end_date},
        size \in SizeDraws(TRUE),
        channel \in DOMAIN base_cac_channel,
        trial \in TrialDraws(TRUE),
        id \in UuidDraws}

SeedInit ==
    /\ PipelineInit(TRUE)
    /\ fn_in = [seed |-> np_random_seed]
    /\ fn_out = <<>>

\* one more process imports the module and runs generate_customers(1)
SeededRun ==
    /\ Len(fn_out) < 2
    /\ \E dataset \in SeededRunResults(fn_in.seed) :
         fn_out' = Append(fn_out, dataset)
    /\ UNCHANGED <<fn_in, pc, next_uuid, genVars, relayVars, custVars, subVars,
                   addonVars, payVars, useVars, supVars>>

SeedSpec == SeedInit /\ [][SeededRun]_vars

(***************************************************************************)
(* The prices of the two revisions as Python computes them: in binary      *)
(* floating point (IEEE 754 double precision, round to nearest, ties to    *)
(* even).  A natural number is the list of its binary digits, lowest       *)
(* first; a float is mant x 2^exp with a mant of exactly 53 digits whose   *)
(* highest digit is 1, so that two floats are equal exactly when their     *)
(* records are.                                                            *)
(***************************************************************************)
\* b without its leading zeros
Trim(b) ==
    LET ones == {j \in 1..Len(b) : b[j] = 1}
    IN  IF ones = {} THEN <<>>
        ELSE SubSeq(b, 1, CHOOSE j \in ones : \A k \in ones : k <= j)

\* the binary digits of n, lowest first, for 0 <= n < 2^30
Bits(n) == Trim([j \in 1..30 |-> (n \div 2^(j - 1)) % 2])

Zeros(n) == [j \in 1..n |-> 0]

\* Long arithmetic is done on limbs of ten binary digits, base 1024.
\* the limbs of the number with digits b, lowest first
Limbs(b) ==
    [l \in 1..((Len(b) + 10 - 1) \div 10) |->
        LET digit(j) == IF (l - 1) * 10 + j <= Len(b)
                        THEN b[(l - 1) * 10 + j] * 2^(j - 1) ELSE 0
        IN  digit(1) + digit(2) + digit(3) + digit(4) + digit(5)
            + digit(6) + digit(7) + digit(8) + digit(9) + digit(10)]

\* the digits of the number with limbs L
Digits(L) ==
    Trim([j \in 1..(10 * Len(L)) |->
             (L[(j - 1) \div 10 + 1] \div 2^((j - 1) % 10)) % 2])

RECURSIVE MulLimbs(_, _, _)
\* L x k + carry
MulLimbs(L, k, carry) ==
    IF L = <<>>
    THEN IF carry = 0 THEN <<>>
         ELSE <<carry % 1024>> \o MulLimbs(<<>>, k, carry \div 1024)
    ELSE <<(L[1] * k + carry) % 1024>>
         \o MulLimbs(Tail(L), k, (L[1] * k + carry) \div 1024)

RECURSIVE DivLimbs(_, _)
\* quotient and remainder of L by k
DivLimbs(L, k) ==
    IF L = <<>> THEN [q |-> <<>>, r |-> 0]
    ELSE LET hi == DivLimbs(Tail(L), k)
             t == 1024 * hi.r + L[1]
         IN  [q |-> <<t \div k>> \o hi.q, r |-> t % k]

RECURSIVE SubLimbs(_, _, _)
\* A - B - borrow, for A >= B + borrow
SubLimbs(A, B, borrow) ==
    IF A = <<>> THEN <<>>
    ELSE LET t == A[1] - (IF B = <<>> THEN 0 ELSE B[1]) - borrow
         IN  <<t % 1024>>
             \o SubLimbs(Tail(A), IF B = <<>> THEN <<>> ELSE Tail(B),
                         IF t < 0 THEN 1 ELSE 0)

\* b x k
MulSmall(b, k) == Digits(MulLimbs(Limbs(b), k, 0))

\* quotient and remainder of b by k
DivSmall(b, k) ==
    LET d == DivLimbs(Limbs(b), k)
    IN  [q |-> Digits(d.q), r |-> d.r]

\* a - b, for a >= b
SubBits(a, b) == Digits(SubLimbs(Limbs(a), Limbs(b), 0))

\* b + 1
Inc(b) ==
    LET zeros == {j \in 1..Len(b) : b[j] = 0}
    IN  IF zeros = {} THEN Zeros(Len(b)) \o <<1>>
        ELSE LET z == CHOOSE j \in zeros : \A k \in zeros : j <= k
             IN  [j \in 1..Len(b) |->
                     IF j < z THEN 0 ELSE IF j = z THEN 1 ELSE b[j]]

\* digits of the mantissa of a double
Precision == 53

\* The double nearest to b x 2^e, or to a number strictly between that
\* and (b + 1) x 2^e when inexact holds; b has no leading zero, is not
\* zero, and has more than Precision digits when inexact holds.
RoundToDouble(b, e, inexact) ==
    LET n == Len(b)
        drop == n - Precision
    IN  IF drop <= 0
        THEN [mant |-> Zeros(-drop) \o b, exp |-> e + drop]
        ELSE LET kept == SubSeq(b, drop + 1, n)
                 above_half == \/ inexact
                               \/ \E j \in 1..(drop - 1) : b[j] = 1
                 up == b[drop] = 1 /\ (above_half \/ kept[1] = 1)
                 m == IF up THEN Inc(kept) ELSE kept
             IN  IF Len(m) > Precision
                 THEN [mant |-> Tail(m), exp |-> e + drop + 1]
                 ELSE [mant |-> m, exp |-> e + drop]

\* float(n) of an int n > 0
FromInt(n) == RoundToDouble(Bits(n), 0, FALSE)

\* the value of the literal num/den, such as 0.10 = 10/100
Literal(num, den) ==
    LET d == DivSmall(Zeros(64) \o Bits(num), den)
    IN  RoundToDouble(d.q, -64, d.r # 0)

\* 1 - x for a float 0 < x < 1
OneMinus(x) ==
    RoundToDouble(SubBits(Zeros(-x.exp) \o <<1>>, x.mant), x.exp, FALSE)

\* k * x for an int k > 0 and a float x
IntTimes(k, x) == RoundToDouble(MulSmall(x.mant, k), x.exp, FALSE)

\* x / k for a float x and an int k > 0
DividedBy(x, k) ==
    LET shift == Len(Bits(k)) + 2
        d == DivSmall(Zeros(shift) \o x.mant, k)
    IN  RoundToDouble(d.q, x.exp - shift, d.r # 0)

\* x and y are neighbours among the doubles of one binade
Adjacent(x, y) ==
    /\ x.exp = y.exp
    /\ \/ Inc(x.mant) = y.mant
       \/ Inc(y.mant) = x.mant

\* self.plans of AdvancedSaaSDataGenerator; annual_discount in hundredths
advanced_plans ==
    [Starter      |-> [base_price |-> 29,  per_seat_price |-> 0,
                       max_seats |-> 5,    annual_discount |-> 10],
     Professional |-> [base_price |-> 49,  per_seat_price |-> 15,
                       max_seats |-> 50,   annual_discount |-> 15],
     Business     |-> [base_price |-> 99,  per_seat_price |-> 25,
                       max_seats |-> 200,  annual_discount |-> 20],
     Enterprise   |-> [base_price |-> 299, per_seat_price |-> 35,
                       max_seats |-> 1000, annual_discount |-> 25]]

\* calculate_tier_pricing with the discount applied to the monthly cost
MutTierPricingNotTimes12(plan_name, seats, billing_frequency) == IF billing_frequency = "annual" THEN IntTimes(advanced_plans[plan_name].base_price + (IF seats <= 1 THEN 0 ELSE Min(seats - 1, advanced_plans[plan_name].max_seats - 1)) * advanced_plans[plan_name].per_seat_price, OneMinus(Literal(advanced_plans[plan_name].annual_discount, 100))) ELSE FromInt(advanced_plans[plan_name].base_price + (IF seats <= 1 THEN 0 ELSE Min(seats - 1, advanced_plans[plan_name].max_seats - 1)) * advanced_plans[plan_name].per_seat_price)

\* calculate_tier_pricing of the older revision
calculate_tier_pricing(plan_name, seats, billing_frequency) ==
    LET plan == advanced_plans[plan_name]
        base_cost ==
            IF seats <= 1 THEN plan.base_price
            ELSE plan.base_price
                 + Min(seats - 1, plan.max_seats - 1) * plan.per_seat_price
    IN  IF billing_frequency = "annual"
        THEN IntTimes(base_cost * 12,
                      OneMinus(Literal(plan.annual_discount, 100)))
        ELSE FromInt(base_cost)

\* monthly_price as _create_initial_subscription of the older revision
\* stores it
stored_monthly_price(plan_name, seats, billing_frequency) ==
    LET monthly_price ==
            calculate_tier_pricing(plan_name, seats, billing_frequency)
    IN  IF billing_frequency = "annual" THEN DividedBy(monthly_price, 12)
        ELSE monthly_price

\* calculate_monthly_recurring_revenue of the newer revision, in floating
\* point
effective_monthly_mrr(plan_name, seats, billing_frequency) ==
    LET plan == plans[plan_name]
        additional_seats == Max(0, Min(seats - 1, plan.max_seats - 1))
        base_cost_monthly == plan.base_price_monthly
                             + additional_seats * plan.per_seat_price
    IN  IF billing_frequency = "annual"
        THEN IntTimes(base_cost_monthly,
                      OneMinus(Literal(plan.annual_discount, 100)))
        ELSE FromInt(base_cost_monthly)

\* both revisions are called with the same arguments
RevisionInit == PricingInit

\* the two calls return
RevisionCall ==
    /\ fn_out = <<>>
    /\ fn_out' = <<stored_monthly_price(fn_in.plan_name, fn_in.seats,
                                        fn_in.billing_frequency),
                   effective_monthly_mrr(fn_in.plan_name, fn_in.seats,
                                         fn_in.billing_frequency)>>
    /\ UNCHANGED <<fn_in, pc, next_uuid, genVars, relayVars, custVars, subVars,
                   addonVars, payVars, useVars, supVars>>

RevisionSpec == RevisionInit /\ [][RevisionCall]_vars

(***************************************************************************)
(* The chat relay (app.py): MyBot.on_message_activity, ask_genie and       *)
(* process_query_results.  One step handles one message of one user; the   *)
(* Genie API is what its calls return or raise in that step.  A JSON text  *)
(* is the list of its tokens, a response the list of its parts.            *)
(***************************************************************************)
\* conversations Genie starts in one run
MaxConversations == 4

\* the text of the "error" answer of ask_genie and of the last handler of
\* on_message_activity
error_text == "An error occurred while processing your request."

\* What the Genie API does during one ask_genie: the call that raises when
\* it is made, and what the calls that return hold.
GenieOutcomes ==
    [raises : {"none", "start_conversation_and_wait",
               "get_message_attachment_query_result", "get_message",
               "get_statement"},
     query_result : BOOLEAN,
     statement_response : BOOLEAN,
     data_array : BOOLEAN,
     query_description : BOOLEAN,
     text_attachment : BOOLEAN]

\* json.dumps of a dict given as the list of its (key, value) pairs
json_dumps(obj) ==
    <<"{">>
    \o [j \in 1..(2 * Len(obj)) |-> obj[(j + 1) \div 2][2 - (j % 2)]]
    \o <<"}">>

\* json.loads of such a text: the dict as a function on its keys
json_loads(text) ==
    LET n == (Len(text) - 2) \div 2
    IN  [key \in {text[2 * j] : j \in 1..n} |->
            text[1 + 2 * CHOOSE j \in 1..n : text[2 * j] = key]]

\* ask_genie(question, space_id, conversation_id), fresh being the id of
\* the conversation that start_conversation_and_wait starts
ask_genie(conversation_id, fresh, o) ==
    LET started == o.raises # "start_conversation_and_wait"
        with_result == o.query_result /\ o.statement_response
        raised ==
            \/ ~started
            \/ /\ o.query_result
               /\ o.raises = "get_message_attachment_query_result"
            \/ o.raises = "get_message"
            \/ with_result /\ o.raises = "get_statement"
        answer ==
            IF raised THEN <<<<"error", error_text>>>>
            ELSE IF with_result
            THEN <<<<"columns", "schema">>,
                   <<"data", IF o.data_array THEN "data_array" ELSE "empty">>,
                   <<"query_description",
                     IF o.query_description THEN "description" ELSE "">>>>
            ELSE IF o.text_attachment
            THEN <<<<"message", "attachment text">>>>
            ELSE <<<<"message", "message content">>>>
    IN  [answer |-> json_dumps(answer),
         conversation_id |->
             IF started /\ conversation_id = NoConversation THEN fresh
             ELSE conversation_id,
         read_from |-> IF started THEN fresh ELSE NoConversation,
         raised |-> raised]

\* process_query_results(answer_json): the response, or the exception of
\* data["data_array"] on a result without rows
process_query_results(answer_json) ==
    LET has(key) == key \in DOMAIN answer_json
        description ==
            IF has("query_description")
               /\ answer_json["query_description"] # ""
            THEN <<"## Query Description", answer_json["query_description"]>>
            ELSE <<>>
    IN  IF has("columns") /\ has("data")
        THEN IF answer_json["data"] = "data_array"
             THEN [raised |-> FALSE,
                   response |-> description \o <<"## Query Results", "rows">>]
             ELSE [raised |-> TRUE, response |-> <<>>]
        ELSE IF has("message")
        THEN [raised |-> FALSE,
              response |-> description \o <<answer_json["message"]>>]
        ELSE [raised |-> FALSE,
              response |-> description \o <<"No data available.">>]

RelayInit ==
    /\ PipelineInit(FALSE)
    /\ fn_in = None
    /\ fn_out = <<>>

\* MyBot.on_message_activity for one message of one user
on_message_activity ==
    /\ genie_conversations < MaxConversations
    /\ \E user_id \in Users, o \in GenieOutcomes :
         LET conversation_id == conversation_ids[user_id]
             fresh == genie_conversations + 1
             asked == ask_genie(conversation_id, fresh, o)
             answer_json == json_loads(asked.answer)
             processed == process_query_results(answer_json)
         IN  /\ conversation_ids' =
                    [conversation_ids EXCEPT ![user_id] = asked.conversation_id]
             /\ genie_conversations' =
                    IF asked.read_from = fresh THEN fresh
                    ELSE genie_conversations
             /\ turn' = [user |-> user_id,
                         conversation_id |-> conversation_id,
                         read_from |-> asked.read_from,
                         new_conversation_id |-> asked.conversation_id,
                         api_raised |-> asked.raised,
                         replies |-> IF processed.raised
                                     THEN <<<<error_text>>>>
                                     ELSE <<processed.response>>]
    /\ UNCHANGED <<pc, next_uuid, genVars, custVars, subVars, addonVars,
                   payVars, useVars, supVars, fnVars>>

RelaySpec == RelayInit /\ [][on_message_activity]_vars

(***************************************************************************)
(* Properties of the subscription lifecycle.                               *)
(***************************************************************************)
Rows == 1..Len(all_subscriptions_final)

Sub(r) == all_subscriptions_final[r]

IsExpansion(s) == s.subscription_type \in {"seat_expansion", "plan_upgrade"}

\* rows a and b are core records of one customer
SameLineage(a, b) ==
    /\ IsCore(Sub(a))
    /\ IsCore(Sub(b))
    /\ Sub(a).customer_id = Sub(b).customer_id

\* a is the record just before b in the start-date order of b's lineage
PrecedesInLineage(a, b) ==
    /\ SameLineage(a, b)
    /\ Sub(a).start_date < Sub(b).start_date
    /\ ~\E c \in Rows : /\ SameLineage(c, b)
                        /\ Sub(a).start_date < Sub(c).start_date
                        /\ Sub(c).start_date < Sub(b).start_date

\* C1: along every customer lineage in start-date order monthly_price never
\* decreases, and every seat_expansion or plan_upgrade record has a record
\* just before it in that order, with a strictly smaller monthly_price.
C1_PriceIncreasesAlongLineage ==
    \A b \in Rows :
       /\ \A a \in Rows :
            (SameLineage(a, b) /\ Sub(a).start_date <= Sub(b).start_date)
               => (a = b \/ Sub(a).start_date < Sub(b).start_date)
                  /\ Sub(a).monthly_price <= Sub(b).monthly_price
       /\ IsExpansion(Sub(b)) =>
            /\ \E a \in Rows : PrecedesInLineage(a, b)
            /\ \A a \in Rows : PrecedesInLineage(a, b)
                  => Sub(a).monthly_price < Sub(b).monthly_price

\* a lineage of three records: initial, then two expansion events, one of
\* them a seat expansion on a plan that charges per seat
C1_Witness ==
    \E a, b, c \in Rows :
       /\ Sub(a).subscription_type = "initial"
       /\ PrecedesInLineage(a, b)
       /\ PrecedesInLineage(b, c)
       /\ Sub(b).subscription_type = "seat_expansion"
       /\ Sub(c).subscription_type = "plan_upgrade"

\* C2: every record has seats >= 1, and every initial, seat_expansion and
\* plan_upgrade record has at most the max_seats of the plan it names.
C2_SeatsWithinPlan ==
    \A r \in Rows :
       /\ Sub(r).seats >= 1
       /\ IsCore(Sub(r)) => Sub(r).seats <= plans[Sub(r).plan_name].max_seats

\* a seat expansion that was cut at the plan's max_seats, followed by an
\* upgrade, and an add-on record
C2_Witness ==
    /\ \E a, b \in Rows :
         /\ Sub(a).subscription_type = "seat_expansion"
         /\ Sub(a).seats = plans[Sub(a).plan_name].max_seats
         /\ Sub(b).subscription_type = "plan_upgrade"
         /\ PrecedesInLineage(a, b)
    /\ \E r \in Rows : Sub(r).subscription_type = "addon"

\* C4: a customer has at most one initial record; every seat_expansion,
\* plan_upgrade and addon record belongs to a customer that has an initial
\* record and starts strictly after it.
C4_InitialOnceAndFirst ==
    /\ \A a, b \in Rows :
          (/\ Sub(a).subscription_type = "initial"
           /\ Sub(b).subscription_type = "initial"
           /\ Sub(a).customer_id = Sub(b).customer_id) => a = b
    /\ \A b \in Rows :
          Sub(b).subscription_type # "initial" =>
             \E a \in Rows :
                /\ Sub(a).subscription_type = "initial"
                /\ Sub(a).customer_id = Sub(b).customer_id
                /\ Sub(a).start_date < Sub(b).start_date

\* two customers with an initial record each, one of them with an expansion
\* event and an add-on
C4_Witness ==
    \E a, b, c, d \in Rows :
       /\ Sub(a).subscription_type = "initial"
       /\ Sub(b).subscription_type = "initial"
       /\ Sub(a).customer_id # Sub(b).customer_id
       /\ IsExpansion(Sub(c))
       /\ Sub(d).subscription_type = "addon"
       /\ Sub(c).customer_id = Sub(d).customer_id

\* the records already appended keep their end_date in every step
EndDatesKept ==
    /\ Len(all_subscriptions_list') >= Len(all_subscriptions_list)
    /\ \A r \in 1..Len(all_subscriptions_list) :
          all_subscriptions_list'[r].end_date
             = all_subscriptions_list[r].end_date

\* every expansion record agrees with the initial record of its customer
InheritsFromInitial ==
    \A b \in Rows :
       IsExpansion(Sub(b)) =>
          \E a \in Rows :
             /\ Sub(a).subscription_type = "initial"
             /\ Sub(a).customer_id = Sub(b).customer_id
             /\ Sub(a).end_date = Sub(b).end_date
             /\ Sub(a).billing_frequency = Sub(b).billing_frequency
             /\ Sub(a).churn_reason = Sub(b).churn_reason

\* C9: every seat_expansion and plan_upgrade record carries the end_date,
\* billing_frequency and churn_reason of the initial record of its customer,
\* and no step changes the end_date of a record already appended.
C9_ExpansionInheritsEnd == []InheritsFromInitial /\ [][EndDatesKept]_vars

\* an expansion event of a churned annual lineage
C9_Witness ==
    \E b \in Rows :
       /\ IsExpansion(Sub(b))
       /\ Sub(b).churn_reason # None
       /\ Sub(b).end_date < gen_end_date
       /\ Sub(b).billing_frequency = "annual"

(***************************************************************************)
(* Properties of the payments.                                             *)
(***************************************************************************)
\* the row whose subscription_id an event carries
RowOf(event) ==
    CHOOSE r \in Rows : Sub(r).subscription_id = event.subscription_id

\* C3: a failed or refunded payment has amount 0; a successful payment of a
\* subscription whose price is greater than 0 has an amount greater than 0:
\* the one-time price for a one-time add-on, monthly_price x 12 for an annual
\* subscription, monthly_price otherwise.
C3_AmountFollowsStatus ==
    last_payment.id # 0 =>
       LET s == Sub(RowOf(last_payment))
           one_time == s.subscription_type = "addon"
                       /\ s.plan_name = "training_package"
       IN  /\ last_payment.status \in {"successful", "failed", "refunded"}
           /\ last_payment.status \in {"failed", "refunded"}
                 => last_payment.amount = 0
           /\ (last_payment.status = "successful" /\ s.monthly_price > 0)
                 => /\ last_payment.amount > 0
                    /\ last_payment.amount =
                          IF one_time THEN s.monthly_price
                          ELSE IF s.billing_frequency = "annual"
                               THEN s.monthly_price * 12
                               ELSE s.monthly_price

\* a refunded payment of an annual subscription that has been paid before
C3_Witness ==
    /\ last_payment.id # 0
    /\ last_payment.status = "refunded"
    /\ last_payment.amount = 0
    /\ Sub(RowOf(last_payment)).billing_frequency = "annual"
    /\ Sub(RowOf(last_payment)).monthly_price > 0
    /\ payment_counts[RowOf(last_payment)] > 1

\* C6: no record has more than 120 payments; a training_package record has
\* no payment before its row is iterated and exactly one afterwards, dated
\* at the record's start_date.
C6_PaymentCountBounded ==
    \A r \in Rows :
       /\ r <= Len(payment_counts) => payment_counts[r] <= 120
       /\ (Sub(r).subscription_type = "addon"
           /\ Sub(r).plan_name = "training_package"
           /\ r <= Len(payment_counts)) =>
             /\ payment_counts[r] =
                   IF pc = "payments" /\ pay.row <= r THEN 0 ELSE 1
             /\ (last_payment.id # 0
                 /\ last_payment.subscription_id = Sub(r).subscription_id)
                   => last_payment.payment_date = Sub(r).start_date

\* the call has returned: a monthly record that was still running when its
\* 120th payment was made, and a training_package paid once
C6_Witness ==
    /\ pc = "usage"
    /\ Len(payment_counts) = 2
    /\ payment_counts[1] = 120
    /\ Sub(1).end_date = gen_end_date
    /\ Sub(1).start_date + 3660 < gen_end_date
    /\ Sub(2).plan_name = "training_package"
    /\ payment_counts[2] = 1
    /\ last_payment.subscription_id = Sub(2).subscription_id

(***************************************************************************)
(* Properties of the usage events.                                         *)
(***************************************************************************)
\* C5: the subscription_id of a usage event is never that of an addon
\* record and always that of an initial, seat_expansion or plan_upgrade
\* record, when the frame passed holds add-on rows too.
C5_NoUsageForAddon ==
    last_usage.id # 0 =>
       /\ \E r \in 1..Len(usage_df) :
             /\ usage_df[r].subscription_id = last_usage.subscription_id
             /\ usage_df[r].subscription_type
                   \in {"initial", "seat_expansion", "plan_upgrade"}
       /\ \A r \in 1..Len(usage_df) :
             usage_df[r].subscription_type = "addon"
                => usage_df[r].subscription_id # last_usage.subscription_id

\* an event was appended in a month in which an add-on row of the frame
\* passed is active
C5_Witness ==
    /\ last_usage.id # 0
    /\ \E r \in 1..Len(usage_df) :
          /\ usage_df[r].subscription_type = "addon"
          /\ usage_df[r].start_date * MinutesPerDay <= last_usage.event_date
          /\ last_usage.event_date <= usage_df[r].end_date * MinutesPerDay

(***************************************************************************)
(* Properties of the pricing formula.  Prices are in hundredths.           *)
(***************************************************************************)
\* C7: with monthly billing the result is base_price + min(seats - 1,
\* max_seats - 1) x per_seat_price, without a per-seat charge when
\* seats <= 1; Professional with 3 seats is 79; Starter is 29 for every
\* seat count.
C7_MonthlyPriceFormula ==
    (fn_out # <<>> /\ fn_in.billing_frequency = "monthly") =>
       LET plan == plans[fn_in.plan_name]
           charged == IF fn_in.seats <= 1 THEN 0
                      ELSE IF fn_in.seats - 1 < plan.max_seats - 1
                           THEN fn_in.seats - 1
                           ELSE plan.max_seats - 1
       IN  /\ fn_out[1] = 100 * (plan.base_price_monthly
                                 + charged * plan.per_seat_price)
           /\ (fn_in.plan_name = "Professional" /\ fn_in.seats = 3)
                 => fn_out[1] = 7900
           /\ fn_in.plan_name = "Starter" => fn_out[1] = 2900

\* a monthly call with a negative seat count on a plan that charges per seat
C7_Witness ==
    /\ fn_out # <<>>
    /\ fn_in.billing_frequency = "monthly"
    /\ fn_in.seats < 0
    /\ plans[fn_in.plan_name].per_seat_price > 0

CustomerIds == {customers[k].customer_id : k \in 1..Len(customers)}

\* the event names a generated subscription and carries its customer_id
RefersToSubscription(event) ==
    \E r \in Rows :
       /\ Sub(r).subscription_id = event.subscription_id
       /\ Sub(r).customer_id = event.customer_id

\* C10: every subscription names a generated customer; every payment and
\* usage event names a generated subscription and carries the customer_id of
\* that subscription; every support interaction names a generated customer.
C10_ReferencesResolve ==
    /\ \A r \in Rows : Sub(r).customer_id \in CustomerIds
    /\ \A a, b \in Rows :
          Sub(a).subscription_id = Sub(b).subscription_id => a = b
    /\ last_payment.id # 0 => RefersToSubscription(last_payment)
    /\ last_usage.id # 0 => RefersToSubscription(last_usage)
    /\ last_support.id # 0 => last_support.customer_id \in CustomerIds

\* the run is over: two customers, an add-on, and a payment, a usage event
\* and a support interaction that name different customers
C10_Witness ==
    /\ pc = "done"
    /\ Len(customers) = 2
    /\ Len(addon_subscriptions) > 0
    /\ last_payment.id # 0
    /\ last_usage.id # 0
    /\ last_support.id # 0
    /\ last_usage.customer_id # last_payment.customer_id

(***************************************************************************)
(* Properties of generate_customers.                                       *)
(***************************************************************************)
\* C15: generate_customers(n) returns at most n records, at most one per
\* candidate iterated, and every acquisition_date lies within
\* [start_date, end_date] of the generator.
C15_AtMostNInWindow ==
    /\ Len(customers) <= i
    /\ i <= NumCustomers
    /\ \A k \in 1..Len(customers) :
          /\ gen_start_date <= customers[k].acquisition_date
          /\ customers[k].acquisition_date <= gen_end_date

\* the call has returned fewer than n records from a window that rejected a
\* candidate dated inside its years
C15_Witness ==
    /\ pc = "subs"
    /\ i = NumCustomers
    /\ Len(customers) = 1
    /\ gen_start_date = Date(2024, 9, 15)
    /\ customers[1].acquisition_date = Date(2024, 12, 20)

\* trial_duration and trial_start_offset of a customer with a trial
TrialDuration(c) == c.trial_end_date - c.trial_start_date

NoTrialNoDates ==
    \A k \in 1..Len(customers) :
       ~customers[k].has_trial =>
          /\ customers[k].trial_start_date = NoDate
          /\ customers[k].trial_end_date = NoDate

\* the claim as stated: the trial lasts 7 to 30 days and has ended by the
\* acquisition date
C16_TrialEndsByAcquisition ==
    /\ NoTrialNoDates
    /\ \A k \in 1..Len(customers) :
          customers[k].has_trial =>
             /\ TrialDuration(customers[k]) \in 7..30
             /\ customers[k].trial_end_date <= customers[k].acquisition_date

\* C16 (amended): a trial lasts 7 to 30 days, starts 1 to 7 days before the
\* acquisition date and ends on the acquisition date or up to 29 days after
\* it; a customer without a trial has no trial start or end date.
C16_TrialAroundAcquisition ==
    /\ NoTrialNoDates
    /\ \A k \in 1..Len(customers) :
          customers[k].has_trial =>
             LET c == customers[k]
             IN  /\ TrialDuration(c) \in 7..30
                 /\ c.acquisition_date - c.trial_start_date \in 1..7
                 /\ c.acquisition_date <= c.trial_end_date
                 /\ c.trial_end_date <= c.acquisition_date + 29

\* a customer whose trial of 30 days started the day before the acquisition
C16_Witness ==
    \E k \in 1..Len(customers) :
       /\ customers[k].has_trial
       /\ TrialDuration(customers[k]) = 30
       /\ customers[k].trial_end_date = customers[k].acquisition_date + 29

(***************************************************************************)
(* Properties of _calculate_churn_date.                                    *)
(***************************************************************************)
\* the last day of the calendar month of day z
EndOfMonth(z) ==
    LET c == Civil(z) IN Date(c.year, c.month, DaysInMonth(c.year, c.month))

\* the step in which _calculate_churn_date returns: churn_date is the clock
\* and churn_iter the number of iterations done
ChurnReturns ==
    (pc = "churn" /\ pc' = "expand") =>
       LET r == all_subscriptions_list'[Len(all_subscriptions_list')]
       IN  \/ /\ r.churn_reason \in reasons
              /\ churn_iter < 120
              /\ churn_date <= gen_end_date
              /\ r.end_date = IF EndOfMonth(churn_date) <= gen_end_date
                              THEN EndOfMonth(churn_date) ELSE gen_end_date
           \/ /\ r.churn_reason = None
              /\ r.end_date = gen_end_date
              /\ churn_date > gen_end_date \/ churn_iter = 120

InitialEndInWindow ==
    \A r \in 1..Len(all_subscriptions_list) :
       LET s == all_subscriptions_list[r]
       IN  s.subscription_type = "initial" =>
              /\ s.start_date <= s.end_date
              /\ s.end_date <= gen_end_date

\* C18: on churn the end date is the last day of the month of the clock at
\* the successful test, cut at the horizon, with a reason of the fixed list;
\* otherwise it is the horizon with no reason, once the clock has passed the
\* horizon or 120 iterations are done; always start_date <= end_date <=
\* horizon.
C18_ChurnDateShape == []InitialEndInWindow /\ [][ChurnReturns]_vars

\* a churn in the month of a horizon that is not a month end: the end date
\* is the horizon, with a reason
C18_Witness ==
    /\ pc = "expand"
    /\ gen_end_date = Date(2024, 12, 10)
    /\ all_subscriptions_list[1].end_date = gen_end_date
    /\ all_subscriptions_list[1].churn_reason \in reasons

\* 120 iterations were done with the clock still before the horizon
C18_LoopRunsOut ==
    /\ pc = "expand"
    /\ gen_start_date = Date(2010, 1, 1)
    /\ all_subscriptions_list[1].start_date = Date(2010, 1, 31)
    /\ all_subscriptions_list[1].end_date = gen_end_date
    /\ all_subscriptions_list[1].churn_reason = None

(***************************************************************************)
(* Properties of _create_initial_subscription and of the expansion steps.  *)
(***************************************************************************)
\* the customer row a record names
CustomerOf(s) ==
    customers[CHOOSE k \in 1..Len(customers) :
                 customers[k].customer_id = s.customer_id]

\* C19: every initial record starts on or after the acquisition date of its
\* customer, after the trial end date when the customer has a trial, and
\* not after the horizon; a customer whose trial ends at or after the
\* horizon, so that every start date computed for it is after the horizon,
\* has no record of any kind.
C19_StartAfterTrial ==
    \A r \in Rows :
       LET c == CustomerOf(Sub(r))
       IN  /\ ~(c.has_trial /\ c.trial_end_date >= gen_end_date)
           /\ Sub(r).subscription_type = "initial" =>
                 /\ Sub(r).start_date >= c.acquisition_date
                 /\ c.has_trial => Sub(r).start_date > c.trial_end_date
                 /\ Sub(r).start_date <= gen_end_date

\* what the code keeps of C19: the start date is not before the trial end
C19_StartNotBeforeTrialEnd ==
    \A r \in Rows :
       LET c == CustomerOf(Sub(r))
       IN  /\ ~(c.has_trial /\ c.trial_end_date >= gen_end_date)
           /\ Sub(r).subscription_type = "initial" =>
                 /\ Sub(r).start_date >= c.acquisition_date
                 /\ c.has_trial => Sub(r).start_date >= c.trial_end_date
                 /\ Sub(r).start_date <= gen_end_date

\* a customer acquired on the last day of its trial, with a record
C19_StartOnTrialEnd ==
    \E r \in Rows :
       /\ Sub(r).subscription_type = "initial"
       /\ CustomerOf(Sub(r)).has_trial
       /\ Sub(r).start_date = CustomerOf(Sub(r)).trial_end_date

\* a customer whose trial ends after the horizon was iterated and skipped
C19_LateCustomerSkipped ==
    /\ pc = "subs"
    /\ cust_idx >= 1
    /\ customers[1].has_trial
    /\ customers[1].trial_end_date > gen_end_date
    /\ \A r \in Rows : Sub(r).customer_id # customers[1].customer_id

\* the plan order never goes down along a lineage in start-date order
PlanNeverLower ==
    \A a, b \in Rows :
       (SameLineage(a, b) /\ Sub(a).start_date <= Sub(b).start_date)
          => PlanIndex(Sub(a).plan_name) <= PlanIndex(Sub(b).plan_name)

\* one iteration of the loop of _generate_expansion_events: exp holds the
\* clock, plan and seats before the step
ExpansionStepShape ==
    pc = "expand" =>
       LET n == Len(all_subscriptions_list)
           r == all_subscriptions_list'[n + 1]
           customer == customers[cust_idx + 1]
       IN  /\ Len(all_subscriptions_list') \in {n, n + 1}
           /\ Len(all_subscriptions_list') = n + 1 =>
                 /\ r.subscription_type \in {"seat_expansion", "plan_upgrade"}
                 /\ r.start_date - exp.current_date \in 60..180
                 /\ r.start_date < init_sub.end_date
                 /\ r.subscription_type = "seat_expansion" =>
                       /\ r.plan_name = exp.current_plan
                       /\ r.seats > exp.current_seats
                 /\ r.subscription_type = "plan_upgrade" =>
                       /\ exp.current_plan # "Enterprise"
                       /\ PlanIndex(r.plan_name)
                             = PlanIndex(exp.current_plan) + 1
                       /\ r.seats = exp.current_seats
                       \* the seat-expansion test, of probability
                       \* 0.3 x factor x seats_tendency, can have failed
                       /\ 3 * seasonal_patterns.expansion[MonthOf(r.start_date)]
                            * customer.seats_tendency < 1000

\* C20: an expansion step appends at most one record, a seat_expansion or a
\* plan_upgrade, 60 to 180 days after the previous clock and before the
\* end date; a plan_upgrade is appended only where the seat-expansion test
\* can fail, only from a plan other than Enterprise, to the next plan, with
\* the seats unchanged; the plan never goes down along a lineage.
C20_OneEventPerStep == []PlanNeverLower /\ [][ExpansionStepShape]_vars

\* a plan_upgrade appended in the step after a seat_expansion of the same
\* lineage, to the next plan and with the seats of that seat_expansion
C20_Witness ==
    \E a, b \in Rows :
       /\ Sub(a).subscription_type = "seat_expansion"
       /\ Sub(b).subscription_type = "plan_upgrade"
       /\ PrecedesInLineage(a, b)
       /\ PlanIndex(Sub(b).plan_name) = PlanIndex(Sub(a).plan_name) + 1
       /\ Sub(b).seats = Sub(a).seats
       /\ Sub(b).start_date - Sub(a).start_date = 60

\* a seat_expansion of a customer of size Enterprise, whose seat-expansion
\* test always succeeds
C20_SeatTestCertain ==
    \E r \in Rows :
       /\ Sub(r).subscription_type = "seat_expansion"
       /\ CustomerOf(Sub(r)).seats_tendency = 50

(***************************************************************************)
(* Properties of the payment dates.                                        *)
(***************************************************************************)
\* one billing period after day d
OnePeriodAfter(s, d) ==
    IF s.billing_frequency = "annual" THEN AddYear(d) ELSE AddMonths(d, 1)

\* one step of generate_payment_events on a record that is not a one-time
\* add-on: either the payment due is appended or the record is left
PaymentCycleShape ==
    (pc = "payments" /\ pay.row <= Len(all_subscriptions_final)) =>
       LET r == pay.row
           s == Sub(r)
           one_time == s.subscription_type = "addon"
                       /\ s.plan_name = "training_package"
           paid == payment_counts[r]
           due == IF paid = 0 THEN s.start_date
                  ELSE OnePeriodAfter(s, last_payment.payment_date)
       IN  ~one_time =>
              /\ paid > 0 =>
                    /\ last_payment.subscription_id = s.subscription_id
                    /\ due > last_payment.payment_date
              /\ \/ /\ payment_counts'[r] = paid + 1
                    /\ last_payment'.subscription_id = s.subscription_id
                    /\ last_payment'.payment_date = due
                    /\ due <= s.end_date
                    /\ due <= gen_end_date
                    /\ paid < 120
                 \/ /\ payment_counts' = payment_counts
                    /\ last_payment' = last_payment
                    /\ pay'.row = r + 1
                    /\ due > s.end_date \/ due > gen_end_date \/ paid = 120

\* what the code keeps of C17: a payment is dated at the start date or one
\* period (a calendar month, or a year) after the payment before, in strictly
\* increasing order; the payment due is made whenever it is not after the
\* end date, not after the horizon and fewer than 120 were made, and the
\* record is left only otherwise.
C17_EachCycleAfterTheLast == [][PaymentCycleShape]_vars

\* C17: the k-th payment of a record that is not a one-time add-on is dated
\* k - 1 periods after the start date of the record (calendar months for
\* monthly billing, years for annual billing), the first on the start date.
C17_PaymentsOnCycleDates ==
    (pc = "payments" /\ pay.row <= Len(all_subscriptions_final)) =>
       LET s == Sub(pay.row)
           paid == payment_counts[pay.row]
           months == IF s.billing_frequency = "annual" THEN 12 ELSE 1
       IN  (paid > 0 /\ ~(s.subscription_type = "addon"
                          /\ s.plan_name = "training_package")) =>
              last_payment.payment_date
                 = AddMonths(s.start_date, months * (paid - 1))

\* the third monthly payment of a record that started on 2010-01-31 is
\* dated 2010-03-28
C17_ThirdPaymentDrifted ==
    /\ pc = "payments"
    /\ payment_counts[1] = 3
    /\ Sub(1).start_date = Date(2010, 1, 31)
    /\ Sub(1).billing_frequency = "monthly"
    /\ last_payment.payment_date = Date(2010, 3, 28)
    /\ AddMonths(Sub(1).start_date, 2) = Date(2010, 3, 31)

(***************************************************************************)
(* Properties of the unit economics.                                       *)
(***************************************************************************)
\* C11: every ratio of a row is a defined number: LTV_CAC_Ratio is LTV / CAC
\* when CAC > 0 and 0 otherwise (0 for CAC 500 and LTV 0);
\* actual_active_months is at least 1, also without a subscription;
\* CAC_Payback_Months is CAC / Monthly_Revenue when Monthly_Revenue > 0 and
\* 0 otherwise.
C11_RatiosDefined ==
    fn_out # <<>> =>
       LET o == fn_out[1]
       IN  /\ o.LTV_CAC_Ratio.den > 0
           /\ fn_in.CAC > 0 =>
                 o.LTV_CAC_Ratio.num * fn_in.CAC
                    = fn_in.LTV * o.LTV_CAC_Ratio.den
           /\ fn_in.CAC <= 0 => o.LTV_CAC_Ratio.num = 0
           /\ (fn_in.CAC = 50000 /\ fn_in.LTV = 0) => o.LTV_CAC_Ratio.num = 0
           /\ o.actual_active_months.den > 0
           /\ o.actual_active_months.num >= o.actual_active_months.den
           /\ o.Monthly_Revenue.den > 0
           /\ o.Monthly_Revenue
                 = Frac(fn_in.LTV * o.actual_active_months.den,
                        o.actual_active_months.num)
           /\ o.CAC_Payback_Months.den > 0
           /\ o.Monthly_Revenue.num > 0 =>
                 o.CAC_Payback_Months
                    = Frac(fn_in.CAC * o.Monthly_Revenue.den,
                           o.Monthly_Revenue.num)
           /\ o.Monthly_Revenue.num <= 0 => o.CAC_Payback_Months.num = 0

\* the row of a customer with CAC 500, no revenue and a record that ended
\* the day after it started
C11_Witness ==
    /\ fn_out # <<>>
    /\ fn_in.CAC = 50000
    /\ fn_in.LTV = 0
    /\ fn_in.has_subscription
    /\ fn_in.last_active = fn_in.first_active + 1
    /\ fn_out[1].LTV_CAC_Ratio = [num |-> 0, den |-> 1]
    /\ fn_out[1].actual_active_months = [num |-> 1, den |-> 1]
    /\ fn_out[1].CAC_Payback_Months = [num |-> 0, den |-> 1]

(***************************************************************************)
(* Properties of calculate_customer_health_and_churn.                      *)
(***************************************************************************)
Zero == [num |-> 0, den |-> 1]

C13_HealthScoreInUnitInterval ==
    fn_out # <<>> =>
       \A k \in 1..Len(fn_in) :
          LET h == fn_out[k].Customer_Health_Score
          IN  /\ h.den > 0
              /\ 0 <= h.num
              /\ h.num <= h.den

\* two customers with different scores: one has the score 1 and the other a
\* score strictly between 0 and 1
C13_Witness ==
    /\ fn_out # <<>>
    /\ fn_out[1].Customer_Health_Score = [num |-> 1, den |-> 1]
    /\ fn_out[2].Customer_Health_Score.num > 0
    /\ fn_out[2].Customer_Health_Score.num
          < fn_out[2].Customer_Health_Score.den
    /\ fn_in[2].has_usage
    /\ fn_in[2].ratings = <<"Negative">>
    /\ Churned(fn_in[2]) = 1

(***************************************************************************)
(* Reproducibility.                                                        *)
(***************************************************************************)
\* C14: two runs with the same seed return the same data set, record for
\* record.
C14_SameSeedSameDataset ==
    Len(fn_out) = 2 => fn_out[1] = fn_out[2]

\* two runs that differ in the acquisition date only
C14_RunsDiffer ==
    /\ Len(fn_out) = 2
    /\ Len(fn_out[1]) = 1
    /\ Len(fn_out[2]) = 1
    /\ fn_out[1][1].customer.customer_id = fn_out[2][1].customer.customer_id
    /\ fn_out[1][1].customer.acquisition_date
          # fn_out[2][1].customer.acquisition_date

(***************************************************************************)
(* Add-on records.                                                         *)
(***************************************************************************)
AddonRows == 1..Len(addon_subscriptions)

\* a is an add-on record as generate_addon_subscriptions builds it for the
\* initial record s
AttachedTo(a, s) ==
    /\ s.subscription_type = "initial"
    /\ s.customer_id = a.customer_id
    /\ a.start_date - s.start_date >= 30
    /\ a.start_date - s.start_date <= 180
    /\ a.start_date <= s.end_date
    /\ a.billing_frequency = s.billing_frequency
    /\ a.end_date = IF addons[a.plan_name].one_time
                    THEN a.start_date + 1
                    ELSE Min(a.start_date + 3650, s.end_date)

\* C21: every add-on record belongs to an initial record of the same
\* customer, at most one per initial record and add-on name, starts 30 to
\* 180 days after that record's start and not after its end, has its billing
\* frequency, and ends at start + 1 day when one-time, at
\* min(start + 3650 days, end of the record) when recurring.
C21_AddonAttachedToInitial ==
    /\ \A k \in AddonRows :
         LET a == addon_subscriptions[k]
         IN  /\ a.subscription_type = "addon"
             /\ a.plan_name \in DOMAIN addons
             /\ \E r \in 1..Len(all_subscriptions_list) :
                  AttachedTo(a, all_subscriptions_list[r])
    /\ \A k, l \in AddonRows :
         (/\ addon_subscriptions[k].customer_id
               = addon_subscriptions[l].customer_id
          /\ addon_subscriptions[k].plan_name
               = addon_subscriptions[l].plan_name) => k = l

\* a one-time and a recurring add-on on one churned initial record, the
\* recurring one ended with the record
C21_Witness ==
    \E k, l \in AddonRows :
       \E r \in 1..Len(all_subscriptions_list) :
          LET a == addon_subscriptions[k]
              b == addon_subscriptions[l]
              s == all_subscriptions_list[r]
          IN  /\ AttachedTo(a, s)
              /\ AttachedTo(b, s)
              /\ addons[a.plan_name].one_time
              /\ ~addons[b.plan_name].one_time
              /\ s.churn_reason # None
              /\ b.end_date = s.end_date
              /\ b.start_date + 3650 > s.end_date

\* the initial record of the customer of add-on a, a list of one record
ParentOf(a) ==
    SelectSeq(all_subscriptions_list,
              LAMBDA s : /\ s.subscription_type = "initial"
                         /\ s.customer_id = a.customer_id)

C26_StartInsideParent ==
    \A k \in AddonRows :
       LET a == addon_subscriptions[k]
           s == ParentOf(a)[1]
       IN  /\ Len(ParentOf(a)) = 1
           /\ s.start_date <= a.start_date
           /\ a.start_date <= a.end_date
           /\ a.start_date <= s.end_date
           /\ s.end_date <= gen_end_date
           /\ a.end_date <= s.end_date + (IF addons[a.plan_name].one_time
                                          THEN 1 ELSE 0)

\* a one-time add-on bought on the last day of its parent
C26_OneTimeOnLastDay ==
    \E k \in AddonRows :
       LET a == addon_subscriptions[k]
       IN  /\ addons[a.plan_name].one_time
           /\ a.start_date = ParentOf(a)[1].end_date
           /\ a.end_date = ParentOf(a)[1].end_date + 1

(***************************************************************************)
(* Usage events.                                                           *)
(***************************************************************************)
\* C22: every usage event has a timestamp within the active period of the
\* record it references, start_date <= event_date <= end_date, not after
\* the horizon, and 1 <= seats_used <= seats of that record.
C22_UsageInsideRecord ==
    last_usage.id # 0 =>
       \E r \in 1..Len(usage_df) :
          LET s == usage_df[r]
          IN  /\ s.subscription_id = last_usage.subscription_id
              /\ s.customer_id = last_usage.customer_id
              /\ s.start_date * MinutesPerDay <= last_usage.event_date
              /\ last_usage.event_date <= s.end_date * MinutesPerDay
              /\ last_usage.event_date <= gen_end_date * MinutesPerDay
              /\ 1 <= last_usage.seats_used
              /\ last_usage.seats_used <= s.seats

\* an event with more than one seat in use, on the first day of a month
\* that started before the record did not pass: the event is in a later
\* month than the start date's
C22_Witness ==
    /\ last_usage.id # 0
    /\ last_usage.seats_used > 1
    /\ \E r \in 1..Len(usage_df) :
          /\ usage_df[r].subscription_id = last_usage.subscription_id
          /\ usage_df[r].start_date
                > LET c == Civil(usage_df[r].start_date)
                  IN  Date(c.year, c.month, 1)
          /\ last_usage.event_date
                > LastDayOfMonth(usage_df[r].start_date) * MinutesPerDay

\* an event at 23:59 of the last day of a month
C22_LateInTheDay ==
    /\ last_usage.id # 0
    /\ last_usage.event_date % MinutesPerDay = 23 * 60 + 59

(***************************************************************************)
(* Termination.  Rank is a list of four naturals that every step of the    *)
(* run makes smaller in the lexicographic order.                           *)
(***************************************************************************)
\* what is left of the loop the run is in
Rank ==
    CASE pc = "customers" -> <<6, NumCustomers - i, 0, 0>>
      [] pc = "subs" -> <<5, Len(customers) - cust_idx, 3, 0>>
      [] pc = "churn" ->
           <<5, Len(customers) - cust_idx, 2, 12 * 10 - churn_iter>>
      [] pc = "expand" ->
           <<5, Len(customers) - cust_idx, 1,
             Max(0, init_sub.end_date - exp.current_date)>>
      [] pc = "addons" ->
           <<4, Len(all_subscriptions_list) + 1 - addon_pos, 0, 0>>
      [] pc = "payments" ->
           <<3, Len(all_subscriptions_final) + 1 - pay.row,
             max_payments + 1 - pay.payment_count, 0>>
      [] pc = "usage" ->
           <<2, Len(core_and_expansion_subs(usage_df)) + 1 - use.row,
             IF use.row <= Len(core_and_expansion_subs(usage_df))
             THEN Max(0, gen_end_date + 32 - use.current_month_start)
             ELSE 0,
             MaxUsageEvents - usage_count>>
      [] pc = "support" -> <<1, Len(customers) - sup_idx, 0, 0>>
      [] OTHER -> <<0, 0, 0, 0>>

\* a is before b in the lexicographic order
LexLess(a, b) ==
    \E k \in 1..4 : /\ a[k] < b[k]
                    /\ \A j \in 1..(k - 1) : a[j] = b[j]

\* the bounds the loops keep
LoopsBounded ==
    /\ \A k \in 1..4 : Rank[k] >= 0
    /\ churn_iter <= 12 * 10
    /\ pc = "payments" => pay.payment_count <= max_payments

\* what one step does to the loop it is in
LoopsAdvance ==
    /\ LexLess(Rank', Rank)
    /\ (pc = "churn" /\ pc' = "churn") => churn_iter' = churn_iter + 1
    /\ (pc = "expand" /\ pc' = "expand")
          => /\ exp'.current_date >= exp.current_date + 60
             /\ exp'.current_date < init_sub.end_date
    /\ (pc = "payments" /\ pc' = "payments" /\ pay'.row = pay.row)
          => /\ pay'.payment_count = pay.payment_count + 1
             /\ pay'.current_date > pay.current_date
    /\ (pc = "usage" /\ pc' = "usage" /\ use'.row = use.row
        /\ use' # use)
          => use'.current_month_start > use.current_month_start

\* C23: a run terminates: the churn loop ends within 120 iterations, the
\* expansion clock advances by at least 60 days per step towards the end
\* date, the payment loop ends within 120 cycles, the month cursor of the
\* usage loop strictly advances; every step lowers a rank that is bounded
\* below.
C23_EveryLoopTerminates == []LoopsBounded /\ [][LoopsAdvance]_vars

\* the run is over after each of the four loops has iterated
C23_Witness ==
    /\ pc = "done"
    /\ Len(all_subscriptions_list) > 1
    /\ last_payment.id # 0
    /\ last_usage.id # 0
    /\ last_support.id # 0

(***************************************************************************)
(* Churn across the outputs.                                               *)
(***************************************************************************)
\* subscriptions_df.groupby('customer_id')['end_date'].max() of
\* calculate_customer_health_and_churn, on all_subscriptions_final
latest_end_date(customer_id) ==
    LET ends == {all_subscriptions_final[r].end_date :
                   r \in {q \in Rows :
                            all_subscriptions_final[q].customer_id
                               = customer_id}}
    IN  IF ends = {} THEN NoDate
        ELSE CHOOSE d \in ends : \A e \in ends : e <= d

\* the Churned flag of a customer
ChurnedFlag(customer_id) ==
    Churned([latest_end_date |-> latest_end_date(customer_id)])

\* C24: an initial record has a churn reason if and only if its end date is
\* strictly before the horizon, and the Churned flag of a customer is 1
\* exactly when its initial record has a churn reason.
C24_ChurnReasonIffEndedEarly ==
    pc = "payments" =>
       \A r \in 1..Len(all_subscriptions_list) :
          LET s == all_subscriptions_list[r]
          IN  s.subscription_type = "initial" =>
                /\ s.churn_reason # None <=> s.end_date < gen_end_date
                /\ ChurnedFlag(s.customer_id) = 1 <=> s.churn_reason # None

\* what holds: a record that ended before the horizon has a reason, a
\* customer flagged as churned has a reason, and a record without a reason
\* ends on the horizon
C24_EndedEarlyHasReason ==
    pc = "payments" =>
       \A r \in 1..Len(all_subscriptions_list) :
          LET s == all_subscriptions_list[r]
          IN  s.subscription_type = "initial" =>
                /\ s.end_date < gen_end_date => s.churn_reason # None
                /\ ChurnedFlag(s.customer_id) = 1 => s.churn_reason # None
                /\ s.churn_reason = None => s.end_date = gen_end_date

\* a record that churned in the month of the horizon: it has a reason, ends
\* on the horizon, and its customer is not flagged
C24_ChurnedInLastMonth ==
    /\ pc = "payments"
    /\ \E r \in 1..Len(all_subscriptions_list) :
          LET s == all_subscriptions_list[r]
          IN  /\ s.subscription_type = "initial"
              /\ s.churn_reason # None
              /\ s.end_date = gen_end_date
              /\ ChurnedFlag(s.customer_id) = 0

(***************************************************************************)
(* Billing along a lineage.                                                *)
(***************************************************************************)
\* the payment last appended is billed by a core record that a later
\* seat_expansion or plan_upgrade record of its lineage has replaced by the
\* payment date
BilledAfterReplaced ==
    /\ last_payment.id # 0
    /\ \E b, r \in Rows :
          /\ Sub(b).subscription_id = last_payment.subscription_id
          /\ SameLineage(b, r)
          /\ IsExpansion(Sub(r))
          /\ Sub(b).start_date < Sub(r).start_date
          /\ Sub(r).start_date <= last_payment.payment_date

\* C25: once a seat_expansion or plan_upgrade record of a lineage has
\* started, no payment dated on or after that start is generated for an
\* earlier record of the lineage.
C25_OneBilledRecordAtATime == ~BilledAfterReplaced

\* what holds: every payment of a core record is dated within that record's
\* own period, which for every record of a lineage runs to the end date of
\* the initial record
C25_BilledWithinOwnPeriod ==
    last_payment.id # 0 =>
       \E b \in Rows :
          /\ Sub(b).subscription_id = last_payment.subscription_id
          /\ Sub(b).start_date <= last_payment.payment_date
          /\ last_payment.payment_date <= Sub(b).end_date
          /\ \A r \in Rows : SameLineage(b, r)
                                => Sub(r).end_date = Sub(b).end_date

\* a successful payment of an initial record after its seat expansion began
C25_InitialBilledAfterExpansion ==
    /\ BilledAfterReplaced
    /\ last_payment.status = "successful"
    /\ last_payment.amount > 0
    /\ \E b \in Rows :
          /\ Sub(b).subscription_id = last_payment.subscription_id
          /\ Sub(b).subscription_type = "initial"

(***************************************************************************)
(* Expansion of the customers of size Enterprise.                          *)
(***************************************************************************)
\* C27: a customer of size 'Enterprise (1000+)' never receives a
\* plan_upgrade record: 0.3 x expansion_factor(month) x 5.0 is at least 1
\* in every month, so the seat-expansion branch is always taken.
C27_EnterpriseSizeNeverUpgrades ==
    /\ \A month \in 1..12 :
          3 * seasonal_patterns.expansion[month]
            * size_factors.Enterprise.seats_tendency >= 1000
    /\ \A r \in 1..Len(all_subscriptions_list) :
          LET s == all_subscriptions_list[r]
          IN  s.subscription_type = "plan_upgrade"
                 => CustomerOf(s).company_size # "Enterprise (1000+)"

\* the expansion loop of a customer of size Enterprise on the Business plan
\* has ended; it appended a seat_expansion record on that plan more than 60
\* days before the end date, so that a later step ran as well
C27_Witness ==
    /\ pc \in {"subs", "addons"}
    /\ \E r, q \in 1..Len(all_subscriptions_list) :
          LET s == all_subscriptions_list[r]
              e == all_subscriptions_list[q]
          IN  /\ s.subscription_type = "initial"
              /\ CustomerOf(s).company_size = "Enterprise (1000+)"
              /\ s.plan_name = "Business"
              /\ e.subscription_type = "seat_expansion"
              /\ e.customer_id = s.customer_id
              /\ e.plan_name = "Business"
              /\ s.end_date - e.start_date > 60

(***************************************************************************)
(* The two revisions of the generator.                                     *)
(***************************************************************************)
\* C28: for every plan, seat count and billing frequency the monthly price
\* the older revision stores equals the newer revision's
\* calculate_monthly_recurring_revenue.
C28_RevisionsSamePrice ==
    fn_out # <<>> => fn_out[1] = fn_out[2]

\* the two prices are equal with monthly billing, and with annual billing
\* equal or neighbouring doubles: they differ by rounding alone
C28_RevisionsSamePriceUpToRounding ==
    fn_out # <<>> =>
       /\ fn_in.billing_frequency = "monthly" => fn_out[1] = fn_out[2]
       /\ fn_in.billing_frequency = "annual"
             => fn_out[1] = fn_out[2] \/ Adjacent(fn_out[1], fn_out[2])

\* Starter with annual billing: 26.099999999999998 in the older revision,
\* 26.1 in the newer
C28_Witness ==
    /\ fn_out # <<>>
    /\ fn_in.plan_name = "Starter"
    /\ fn_in.billing_frequency = "annual"
    /\ fn_out[2] = Literal(261, 10)
    /\ Inc(fn_out[1].mant) = fn_out[2].mant

\* annual billing with seats above the plan's maximum, where the two
\* revisions agree
C28_AnnualAgree ==
    /\ fn_out # <<>>
    /\ fn_in.plan_name = "Business"
    /\ fn_in.billing_frequency = "annual"
    /\ fn_in.seats > 200
    /\ fn_out[1] = fn_out[2]

(***************************************************************************)
(* The chat relay.                                                         *)
(***************************************************************************)
\* C29: when a conversation id is already stored for a user, the
\* conversation from which ask_genie reads the message and the query result
\* is the one whose id it returns and that MyBot stores for the user.
C29_FollowUpContinuesConversation ==
    (/\ turn.user \in Users
     /\ turn.conversation_id # NoConversation
     /\ turn.read_from # NoConversation)
       => /\ turn.read_from = turn.new_conversation_id
          /\ turn.read_from = conversation_ids[turn.user]

\* what holds: the id stored for a user is the id of its first conversation
\* for good, and the first question is read from that conversation
C29_FirstConversationKept ==
    turn.user \in Users =>
       /\ conversation_ids[turn.user] = turn.new_conversation_id
       /\ turn.conversation_id # NoConversation
             => turn.new_conversation_id = turn.conversation_id
       /\ (turn.conversation_id = NoConversation
           /\ turn.read_from # NoConversation)
             => turn.read_from = turn.new_conversation_id

\* a follow-up question answered from a conversation started for it, while
\* the id of the user's first conversation is returned and stored
C29_FollowUpInNewConversation ==
    /\ turn.user \in Users
    /\ turn.conversation_id # NoConversation
    /\ turn.read_from > turn.conversation_id
    /\ turn.new_conversation_id = turn.conversation_id
    /\ ~turn.api_raised

\* C30: when a Genie API call raises while a message is handled, the single
\* reply sent to the user is 'An error occurred while processing your
\* request.'.
C30_ErrorReplyWhenApiRaises ==
    (turn.user \in Users /\ turn.api_raised)
       => turn.replies = <<<<error_text>>>>

\* what holds: every message gets exactly one reply, which is 'No data
\* available.' when a Genie API call raised
C30_OneReplyPerMessage ==
    turn.user \in Users =>
       /\ Len(turn.replies) = 1
       /\ turn.api_raised => turn.replies = <<<<"No data available.">>>>

\* get_message raised after the conversation had started
C30_ApiRaised ==
    /\ turn.user \in Users
    /\ turn.api_raised
    /\ turn.read_from # NoConversation
    /\ turn.replies = <<<<"No data available.">>>>

\* the error text is sent when process_query_results raises on a result
\* without rows
C30_ErrorTextSent ==
    /\ turn.user \in Users
    /\ ~turn.api_raised
    /\ turn.replies = <<<<error_text>>>>

====
